---- MODULE Spec2Model ----
(***************************************************************************)
(* A model of the WhatsApp session bridge (cmd/wa-bridge/main.go) and of   *)
(* the waclient library's Run (package waclient).                          *)
(*                                                                         *)
(* The specifications share the variables below:                           *)
(*   Spec          one WaRun call of the bridge or one Run call of the     *)
(*                 library, with the backend's event callback running      *)
(*                 concurrently with the driving call;                     *)
(*   SpecCollector the bridge's messageCollector as a component, built     *)
(*                 with small caps and targets;                            *)
(*   SpecConfig    normalizeConfig alone;                                  *)
(*   SpecListen    a listening WaRun under fair scheduling;                *)
(*   SpecCap       the collector WaRun builds for a read limit;            *)
(*   SpecAdd       the collector's add and wait, lock by lock;             *)
(*   SpecLocks     the library's mutex, lock by lock;                      *)
(*   SpecBacklog   the callbacks on a history sync.                        *)
(*                                                                         *)
(* Go strings that the code trims, scans or splits are sequences of        *)
(* one-character strings; labels that are only compared are TLA+ strings.  *)
(***************************************************************************)
EXTENDS Integers, Sequences, FiniteSets, TLC

\* ------------------------------------------------------------- bounds

\* Events the backend hands to the event callback during one run.
MaxArrivals == 2
\* Timestamps of inbound events are 1..MaxTs.
MaxTs == 2

\* listen_seconds of the requests given to normalizeConfig alone, in half ticks
MaxListen == 3

\* -------------------------------------------------- program constants

defaultReadLimit == 10
defaultListenSeconds == 10
defaultMessageBuffer == 50
maxMessageBuffer == 1000
\* time.Second in clock ticks; listen_seconds inputs are given in half ticks
\* so that a positive value below the clock's resolution exists.
Second == 1000

\* ------------------------------------------------------------ strings

Digits == {"0", "1", "2", "3", "4", "5", "6", "7", "8", "9"}

IsSpace(c) == c = " "

RECURSIVE TrimLeft(_)
TrimLeft(s) ==
    IF s # <<>> /\ IsSpace(Head(s)) THEN TrimLeft(Tail(s)) ELSE s

RECURSIVE TrimRight(_)
TrimRight(s) ==
    IF s # <<>> /\ IsSpace(s[Len(s)]) THEN TrimRight(SubSeq(s, 1, Len(s) - 1)) ELSE s

\* strings.TrimSpace
\* A trim that removes nothing.
TrimSpaceKeepsAll(s) == s

TrimSpace(s) == TrimRight(TrimLeft(s))

\* strings.Contains(s, "@")
ContainsAt(s) == \E i \in 1..Len(s) : s[i] = "@"

IsDigit(c) == c \in Digits

digitsOnly(raw) == SelectSeq(raw, IsDigit)

\* Byte order of the characters the model uses (Go compares strings bytewise).
CharCode(c) ==
    CASE c = " " -> 32
      [] c = "@" -> 64
      [] c \in Digits -> 48 + (CHOOSE n \in 0..9 : <<"0","1","2","3","4","5","6","7","8","9">>[n + 1] = c)
      [] c = "a" -> 97
      [] c = "b" -> 98
      [] c = "c" -> 99
      [] c = "h" -> 104
      [] c = "i" -> 105
      [] c = "s" -> 115
      [] c = ":" -> 58
      [] c = "[" -> 91
      [] c = "]" -> 93
      [] c = "S*" -> 1057
      [] c = "T*" -> 1058
      [] OTHER -> 120

RECURSIVE StrLess(_, _)
StrLess(a, b) ==
    IF b = <<>> THEN FALSE
    ELSE IF a = <<>> THEN TRUE
    ELSE IF Head(a) = Head(b) THEN StrLess(Tail(a), Tail(b))
    ELSE CharCode(Head(a)) < CharCode(Head(b))

\* ---------------------------------------------------------------- JIDs

DefaultUserServer == <<"s">>

NewJID(user, server) == [User |-> user, Server |-> server]

EmptyJID == NewJID(<<>>, <<>>)

\* types.JID.String
JIDString(j) ==
    IF j.User = <<>> THEN j.Server ELSE j.User \o <<"@">> \o j.Server

AtIndex(s) == CHOOSE i \in 1..Len(s) : s[i] = "@" /\ \A k \in 1..(i - 1) : s[k] # "@"

\* types.ParseJID on a string holding "@": user before the first "@", server after.
ParseJID(s) ==
    [err |-> FALSE,
     jid |-> NewJID(SubSeq(s, 1, AtIndex(s) - 1), SubSeq(s, AtIndex(s) + 1, Len(s)))]

\* parseChatIdentifier of the bridge
parseChatIdentifier(raw) ==
    LET trimmed == TrimSpace(raw) IN
    IF trimmed = <<>> THEN [err |-> TRUE, jid |-> EmptyJID]
    ELSE IF ContainsAt(trimmed) THEN ParseJID(trimmed)
    ELSE IF digitsOnly(trimmed) = <<>> THEN [err |-> TRUE, jid |-> EmptyJID]
    ELSE [err |-> FALSE, jid |-> NewJID(digitsOnly(trimmed), DefaultUserServer)]

parseAccountIdentifier(raw) ==
    LET digits == digitsOnly(TrimSpace(raw)) IN
    IF digits = <<>> THEN [err |-> TRUE, jid |-> EmptyJID]
    ELSE [err |-> FALSE, jid |-> NewJID(digits, DefaultUserServer)]

\* ------------------------------------------------------- configuration

\* runPayload: the zero value of every field is what an omitted field decodes to.
EmptyPayload ==
    [SendText |-> <<>>, Recipient |-> <<>>, ReadChat |-> <<>>, ReadLimit |-> 0,
     ListenSeconds |-> 0, ShowQR |-> FALSE, ForceRelink |-> FALSE]

\* json.Unmarshal into a runPayload: a read_limit the object does not carry
\* decodes to the zero value.
Unmarshal(obj) ==
    [obj EXCEPT !.ReadLimit = IF obj.ReadLimit = <<>> THEN 0 ELSE obj.ReadLimit[1]]

\* A raw request: kind "json" carries the decoded object, "object" the object
\* as the caller wrote it (read_limit absent or present), "badjson" starts with
\* "{" and does not decode, "text" is any other string (blank when it trims to
\* nothing).
parseRunPayload(raw) ==
    IF raw.kind = "text" /\ TrimSpace(raw.text) = <<>>
        THEN [payload |-> EmptyPayload, err |-> FALSE]
    ELSE IF raw.kind = "badjson" THEN [payload |-> EmptyPayload, err |-> TRUE]
    ELSE IF raw.kind = "json" THEN [payload |-> raw.obj, err |-> FALSE]
    ELSE IF raw.kind = "object" THEN [payload |-> Unmarshal(raw.obj), err |-> FALSE]
    ELSE [payload |-> [EmptyPayload EXCEPT !.SendText = raw.text], err |-> FALSE]

EmptyConfig ==
    [SendText |-> <<>>, ShouldSend |-> FALSE, Recipient |-> <<>>,
     ShouldListen |-> FALSE, ReadChat |-> <<>>, ReadLimit |-> 0,
     ListenDuration |-> 0, explicitReadLimit |-> FALSE, ShowQR |-> FALSE,
     ForceRelink |-> FALSE]

\* time.Duration(listenSeconds * float64(time.Second)): truncation toward zero.
\* ListenSeconds is counted in half ticks.
ToDuration(halfTicks) == halfTicks \div 2

\* A normalizeConfig that leaves a blank read_chat blank.
normalizeConfigKeepsBlankReadChat(raw) ==
    LET parsed == parseRunPayload(raw)
        payload == parsed.payload
        sendText == TrimSpace(payload.SendText)
        recipient == TrimSpace(payload.Recipient)
        shouldSend == sendText # <<>> /\ recipient # <<>>
        readChat == TrimSpace(payload.ReadChat)
        explicitReadLimit == payload.ReadLimit # 0
        readLimit0 == IF payload.ReadLimit < 0 THEN 0 ELSE payload.ReadLimit
        listenSeconds == IF payload.ListenSeconds < 0 THEN 0 ELSE payload.ListenSeconds
        listenDuration0 == ToDuration(listenSeconds)
        shouldListen == readChat # <<>> \/ readLimit0 > 0 \/ listenDuration0 > 0
        listenDuration ==
            IF shouldListen /\ listenDuration0 <= 0
                THEN defaultListenSeconds * Second
                ELSE listenDuration0
        readLimit ==
            IF shouldListen /\ readLimit0 = 0 /\ ~explicitReadLimit /\ listenSeconds = 0
                THEN defaultReadLimit
                ELSE readLimit0
    IN
    IF parsed.err THEN [err |-> "invalid request payload", cfg |-> EmptyConfig]
    ELSE IF sendText # <<>> /\ recipient = <<>>
        THEN [err |-> "recipient is required", cfg |-> EmptyConfig]
    ELSE IF ~shouldSend /\ ~shouldListen /\ ~payload.ShowQR /\ ~payload.ForceRelink
        THEN [err |-> "nothing to do", cfg |-> EmptyConfig]
    ELSE IF shouldListen /\ readChat = <<>>
        THEN [err |-> "read target required", cfg |-> EmptyConfig]
    ELSE [err |-> "",
          cfg |-> [SendText |-> sendText, ShouldSend |-> shouldSend,
                   Recipient |-> recipient, ShouldListen |-> shouldListen,
                   ReadChat |-> readChat, ReadLimit |-> readLimit,
                   ListenDuration |-> listenDuration,
                   explicitReadLimit |-> explicitReadLimit,
                   ShowQR |-> payload.ShowQR, ForceRelink |-> payload.ForceRelink]]

\* A normalizeConfig without the check for a plan that does nothing.
normalizeConfigAllowsIdle(raw) ==
    LET parsed == parseRunPayload(raw)
        payload == parsed.payload
        sendText == TrimSpace(payload.SendText)
        recipient == TrimSpace(payload.Recipient)
        shouldSend == sendText # <<>> /\ recipient # <<>>
        readChat0 == TrimSpace(payload.ReadChat)
        readChat == IF readChat0 = <<>> THEN recipient ELSE readChat0
        explicitReadLimit == payload.ReadLimit # 0
        readLimit0 == IF payload.ReadLimit < 0 THEN 0 ELSE payload.ReadLimit
        listenSeconds == IF payload.ListenSeconds < 0 THEN 0 ELSE payload.ListenSeconds
        listenDuration0 == ToDuration(listenSeconds)
        shouldListen == readChat # <<>> \/ readLimit0 > 0 \/ listenDuration0 > 0
        listenDuration ==
            IF shouldListen /\ listenDuration0 <= 0
                THEN defaultListenSeconds * Second
                ELSE listenDuration0
        readLimit ==
            IF shouldListen /\ readLimit0 = 0 /\ ~explicitReadLimit /\ listenSeconds = 0
                THEN defaultReadLimit
                ELSE readLimit0
    IN
    IF parsed.err THEN [err |-> "invalid request payload", cfg |-> EmptyConfig]
    ELSE IF sendText # <<>> /\ recipient = <<>>
        THEN [err |-> "recipient is required", cfg |-> EmptyConfig]
    ELSE IF shouldListen /\ readChat = <<>>
        THEN [err |-> "read target required", cfg |-> EmptyConfig]
    ELSE [err |-> "",
          cfg |-> [SendText |-> sendText, ShouldSend |-> shouldSend,
                   Recipient |-> recipient, ShouldListen |-> shouldListen,
                   ReadChat |-> readChat, ReadLimit |-> readLimit,
                   ListenDuration |-> listenDuration,
                   explicitReadLimit |-> explicitReadLimit,
                   ShowQR |-> payload.ShowQR, ForceRelink |-> payload.ForceRelink]]

normalizeConfig(raw) ==
    LET parsed == parseRunPayload(raw)
        payload == parsed.payload
        sendText == TrimSpace(payload.SendText)
        recipient == TrimSpace(payload.Recipient)
        shouldSend == sendText # <<>> /\ recipient # <<>>
        readChat0 == TrimSpace(payload.ReadChat)
        readChat == IF readChat0 = <<>> THEN recipient ELSE readChat0
        explicitReadLimit == payload.ReadLimit # 0
        readLimit0 == IF payload.ReadLimit < 0 THEN 0 ELSE payload.ReadLimit
        listenSeconds == IF payload.ListenSeconds < 0 THEN 0 ELSE payload.ListenSeconds
        listenDuration0 == ToDuration(listenSeconds)
        shouldListen == readChat # <<>> \/ readLimit0 > 0 \/ listenDuration0 > 0
        listenDuration ==
            IF shouldListen /\ listenDuration0 <= 0
                THEN defaultListenSeconds * Second
                ELSE listenDuration0
        readLimit ==
            IF shouldListen /\ readLimit0 = 0 /\ ~explicitReadLimit /\ listenSeconds = 0
                THEN defaultReadLimit
                ELSE readLimit0
    IN
    IF parsed.err THEN [err |-> "invalid request payload", cfg |-> EmptyConfig]
    ELSE IF sendText # <<>> /\ recipient = <<>>
        THEN [err |-> "recipient is required", cfg |-> EmptyConfig]
    ELSE IF ~shouldSend /\ ~shouldListen /\ ~payload.ShowQR /\ ~payload.ForceRelink
        THEN [err |-> "nothing to do", cfg |-> EmptyConfig]
    ELSE IF shouldListen /\ readChat = <<>>
        THEN [err |-> "read target required", cfg |-> EmptyConfig]
    ELSE [err |-> "",
          cfg |-> [SendText |-> sendText, ShouldSend |-> shouldSend,
                   Recipient |-> recipient, ShouldListen |-> shouldListen,
                   ReadChat |-> readChat, ReadLimit |-> readLimit,
                   ListenDuration |-> listenDuration,
                   explicitReadLimit |-> explicitReadLimit,
                   ShowQR |-> payload.ShowQR, ForceRelink |-> payload.ForceRelink]]

determineBufferCap(limit) ==
    LET c1 == IF limit > defaultMessageBuffer THEN limit ELSE defaultMessageBuffer
    IN IF c1 > maxMessageBuffer THEN maxMessageBuffer ELSE c1

\* ------------------------------------------------------------- events

DigitChar(n) == <<"0", "1", "2", "3", "4", "5", "6", "7", "8", "9">>[n + 1]

Hi == <<"h", "i">>

\* The sender labels "Ты" and "Собеседник", each written as one character that
\* sorts as the label's first letter does.
LabelSelf == <<"T*">>
LabelPeer == <<"S*">>

\* The conversation a run reads, and another one.
TargetChat == NewJID(<<"1", "2", "3">>, DefaultUserServer)
OtherChat == NewJID(<<"9">>, DefaultUserServer)

\* An inbound *events.Message: Info.ID, Info.Timestamp (0 is the zero time),
\* Info.IsFromMe, Info.Chat, Info.PushName, Info.Sender.User, Message (nil or
\* not), Message.Conversation, Message.ExtendedTextMessage.Text (<<>> stands
\* for a nil ExtendedTextMessage or an empty text) and the caption of an
\* ImageMessage (likewise).
MessageEvent(id, ts, fromMe, chat, hasMessage, conv, ext) ==
    [id |-> id, ts |-> ts, fromMe |-> fromMe, chat |-> chat,
     pushName |-> <<>>, senderUser |-> <<"9">>,
     hasMessage |-> hasMessage, conv |-> conv, ext |-> ext, caption |-> <<>>]

\* Every real message has a backend ID of its own; one message may be delivered
\* more than once.
MessageID(ts, fromMe) == <<"m", DigitChar(ts), IF fromMe THEN "y" ELSE "n">>

TextEvents ==
    { MessageEvent(MessageID(ts, fromMe), ts, fromMe, TargetChat, TRUE, Hi, <<>>) :
        ts \in 1..MaxTs, fromMe \in BOOLEAN }

\* Events the callbacks drop.
DroppedEvents ==
    { MessageEvent(<<"o">>, 1, FALSE, OtherChat, TRUE, Hi, <<>>),
      MessageEvent(<<"e">>, 1, FALSE, TargetChat, TRUE, <<>>, <<>>),
      MessageEvent(<<"n">>, 1, FALSE, TargetChat, FALSE, <<>>, <<>>) }

BridgeEvents ==
    TextEvents \cup DroppedEvents
        \cup { MessageEvent(<<"x">>, MaxTs, FALSE, TargetChat, TRUE, <<>>, Hi) }

\* main.go 348-351
EventText(evt) == IF evt.conv = <<>> THEN evt.ext ELSE evt.conv

\* main.go 353-356
senderLabelBridge(evt) == IF evt.fromMe THEN LabelSelf ELSE LabelPeer

\* The dedup key of the design: the backend message ID, or the composite
\* fallback (timestamp, sender, self flag, text) when the ID is empty.
DedupKey(id, ts, sender, fromMe, text) ==
    IF id # <<>> THEN <<"id", id>> ELSE <<"composite", ts, sender, fromMe, text>>

\* fmt.Sprintf("[%s] %s", sender, text).  An entry of the collector is the
\* formatted string msg; ts and key record the event it was made from, for the
\* properties that speak of timestamps and dedup keys.
FormatBridge(evt) ==
    [msg |-> <<"[">> \o senderLabelBridge(evt) \o <<"]", " ">> \o EventText(evt),
     ts |-> evt.ts,
     key |-> DedupKey(evt.id, evt.ts, senderLabelBridge(evt), evt.fromMe,
                      EventText(evt))]

\* ---------------------------------------------------- messageCollector

newMessageCollector(limit, bufferCap) ==
    [bufferCap |-> IF bufferCap <= 0 THEN 1 ELSE bufferCap,
     limit |-> limit,
     hasDone |-> limit > 0,
     done |-> 0,
     messages |-> <<>>]

\* mc.messages after the append and the truncation of add.
AddMessages(mc, entry) ==
    LET all == Append(mc.messages, entry) IN
    IF Len(all) > mc.bufferCap
        THEN SubSeq(all, Len(all) - mc.bufferCap + 1, Len(all))
        ELSE all

\* Whether add tries to send on mc.done.
AddSignals(mc, msgs) == mc.limit > 0 /\ Len(msgs) >= mc.limit /\ mc.hasDone

\* An add whose signal is lost when nobody is receiving: a channel without a
\* buffer.
addWithoutBuffer(mc, entry) == [mc EXCEPT !.messages = AddMessages(mc, entry)]

\* messageCollector.add: the non-blocking send succeeds when the buffer of
\* capacity 1 is empty.
add(mc, entry) ==
    LET msgs == AddMessages(mc, entry) IN
    [mc EXCEPT !.messages = msgs,
               !.done = IF AddSignals(mc, msgs) THEN 1 ELSE @]

\* 1 when that add put a value on mc.done, 0 otherwise.
AddFires(mc, entry) ==
    IF AddSignals(mc, AddMessages(mc, entry)) /\ mc.done = 0 THEN 1 ELSE 0

snapshot(mc) == mc.messages

\* The event callback registered by WaRun, up to its call of collector.add:
\* TRUE when the event reaches the collector.
HandlerAccepts(coll, haveReadTarget, readTarget, evt) ==
    /\ coll # <<>>
    /\ evt.hasMessage
    /\ ~(haveReadTarget /\ evt.chat # readTarget)
    /\ EventText(evt) # <<>>

\* -------------------------------------------------------------- state

VARIABLES
    entry,              \* the entry point of this run: "WaRun", "Run", "collector"
    phone,              \* WaRun's account phone argument
    req,                \* WaRun's request argument / the library's Config
    storeID0,           \* the stored identity when the run began
    pc,                 \* the driving call's position
    defers,             \* the deferred calls registered so far, last first
    cfg,                \* normalizedConfig
    accountJID,
    connected,          \* the local flag of the same name
    haveReadTarget,
    readTarget,
    sendTarget,
    storeOpen,          \* the sqlstore container is open
    storeOpens,         \* how often sqlstore.New succeeded
    storeID,            \* client.Store.ID: <<>> for nil, <<jid>> otherwise
    handlerRegistered,
    backendConnected,   \* the backend client holds a connection
    connectAttempts,    \* calls of client.Connect
    stabilized,         \* the stabilization sleep after the connect has elapsed
    path,               \* "none", "pairing" or "direct"
    collector,          \* <<>> for nil, <<mc>> otherwise
    timer,              \* "nil", "armed", "fired" or "stopped"
    fired,              \* values put on collector.done so far
    arrivals,           \* events that reached the collector so far
    accepted,           \* every entry the collector took in, in arrival order
    woke,               \* what ended the listen wait: "none", "signal", "timeout"
    resp,               \* the Response being built
    out,                \* <<>> until the return statement marshals resp
    messageLog,         \* library: the message log
    seenMessages,       \* library: the set of seen dedup keys
    mu,                 \* the collector's mutex: "free" or the thread holding it
    threads             \* what each thread has still to do inside the collector

inputs == <<entry, phone, req, storeID0>>
ctl == <<pc, defers>>
locals == <<cfg, accountJID, connected, haveReadTarget, readTarget, sendTarget>>
store == <<storeOpen, storeOpens, storeID>>
backend == <<handlerRegistered, backendConnected, connectAttempts, stabilized, path>>
coll == <<collector, timer, fired, arrivals, accepted, woke>>
output == <<resp, out>>
lib == <<messageLog, seenMessages>>
sync == <<mu, threads>>

vars == <<inputs, ctl, locals, store, backend, coll, output, lib, sync>>

\* ------------------------------------------------------------- inputs

Phones == {<<"x">>, <<"1">>}

AccountA == NewJID(<<"1">>, DefaultUserServer)
AccountB == NewJID(<<"2">>, DefaultUserServer)

StoredIDs == {<<>>, <<AccountA>>, <<AccountB>>}

ReadLimits == {-1, 0, 1, 2}

\* The fields of the JSON payloads: show_qr only changes what is printed, so it
\* is set in the payloads that neither force a relink nor ask for messages.
RequestFields ==
    { p \in {<<>>, Hi} \X {<<>>, <<"1", "2", "3">>, <<"a">>} \X ReadLimits
              \X BOOLEAN \X BOOLEAN :
        p[4] => (~p[5] /\ p[3] <= 0) }

JsonRequests ==
    { [kind |-> "json", text |-> <<>>,
       obj |-> [SendText |-> p[1], Recipient |-> p[2], ReadChat |-> <<>>,
                ReadLimit |-> p[3], ListenSeconds |-> 0, ShowQR |-> p[4],
                ForceRelink |-> p[5]]] :
        p \in RequestFields }

Requests ==
    JsonRequests \cup { [kind |-> "text", text |-> Hi, obj |-> EmptyPayload],
                        [kind |-> "badjson", text |-> <<>>, obj |-> EmptyPayload] }

\* ----------------------------------------------------------- response

NewResponse ==
    [Status |-> "ok", Error |-> "", MessageID |-> <<>>, LastMessages |-> <<>>,
     RequiresQR |-> FALSE]

\* json.Marshal of the Response: the omitempty fields are left out when empty,
\* and last_messages are the formatted strings alone.
marshalResponse(r) ==
    [status |-> r.Status,
     error |-> IF r.Error = "" THEN <<>> ELSE <<r.Error>>,
     message_id |-> IF r.MessageID = <<>> THEN <<>> ELSE <<r.MessageID>>,
     last_messages |->
        IF r.LastMessages = <<>> THEN <<>>
        ELSE <<[i \in 1..Len(r.LastMessages) |-> r.LastMessages[i].msg]>>,
     requires_qr |-> IF r.RequiresQR THEN <<TRUE>> ELSE <<>>]

\* resp.Status = "error"; resp.Error = ...; return marshalResponse(resp)
\* A failure that sets the message and leaves the status as it was.
FailKeepsStatus(kind) ==
    /\ resp' = [resp EXCEPT !.Error = kind]
    /\ out' = Append(out, marshalResponse(resp'))
    /\ pc' = "unwind"

Fail(kind) ==
    /\ resp' = [resp EXCEPT !.Status = "error", !.Error = kind]
    /\ out' = Append(out, marshalResponse(resp'))
    /\ pc' = "unwind"

\* ---------------------------------------------------------- WaRun

\* The driving call, the callback on a live message and the callback on a
\* history sync.  A run followed step by step through its calls has none of
\* them inside the collector between two steps.
Threads == {"run", "live", "hist"}

NoThreads == [t \in Threads |-> <<>>]

\* What every run starts from: nothing opened, connected or collected.
Fresh ==
    /\ storeID0 = storeID
    /\ defers = <<>>
    /\ cfg = EmptyConfig
    /\ accountJID = EmptyJID
    /\ connected = FALSE
    /\ haveReadTarget = FALSE
    /\ readTarget = EmptyJID
    /\ sendTarget = EmptyJID
    /\ storeOpen = FALSE
    /\ storeOpens = 0
    /\ handlerRegistered = FALSE
    /\ backendConnected = FALSE
    /\ connectAttempts = 0
    /\ stabilized = FALSE
    /\ path = "none"
    /\ timer = "nil"
    /\ fired = 0
    /\ arrivals = 0
    /\ accepted = <<>>
    /\ woke = "none"
    /\ resp = NewResponse
    /\ out = <<>>
    /\ messageLog = <<>>
    /\ seenMessages = {}
    /\ mu = "free"
    /\ threads = NoThreads

WaRunInit ==
    /\ entry = "WaRun"
    /\ phone \in Phones
    /\ req \in Requests
    /\ storeID \in StoredIDs
    /\ pc = "start"
    /\ collector = <<>>
    /\ Fresh

\* main.go 223-231
ParseAccount ==
    /\ pc = "start"
    /\ LET parsed == parseAccountIdentifier(phone) IN
        IF parsed.err
            THEN Fail("invalid account phone") /\ UNCHANGED accountJID
            ELSE /\ accountJID' = parsed.jid
                 /\ pc' = "normalize"
                 /\ UNCHANGED output
    /\ UNCHANGED <<inputs, sync, defers, cfg, connected, haveReadTarget, readTarget,
                   sendTarget, store, backend, coll, lib>>

\* main.go 234-245
Normalize ==
    /\ pc = "normalize"
    /\ LET n == normalizeConfig(req) IN
        IF n.err # ""
            THEN Fail(n.err) /\ UNCHANGED cfg
        ELSE IF ~n.cfg.ShouldSend /\ ~n.cfg.ShouldListen /\ ~n.cfg.ShowQR
                    /\ ~n.cfg.ForceRelink
            THEN Fail("nothing to do") /\ UNCHANGED cfg
        ELSE /\ cfg' = n.cfg
             /\ pc' = "openStore"
             /\ UNCHANGED output
    /\ UNCHANGED <<inputs, sync, defers, accountJID, connected, haveReadTarget, readTarget,
                   sendTarget, store, backend, coll, lib>>

\* main.go 248-255: sqlstore.New, defer container.Close()
OpenStore ==
    /\ pc = "openStore"
    /\ \E ok \in BOOLEAN :
        IF ok
            THEN /\ storeOpen' = TRUE
                 /\ storeOpens' = storeOpens + 1
                 /\ defers' = <<"closeStore">> \o defers
                 /\ pc' = "getDevice"
                 /\ UNCHANGED output
            ELSE /\ Fail("failed to init db")
                 /\ UNCHANGED <<storeOpen, storeOpens, defers>>
    /\ UNCHANGED <<inputs, sync, locals, storeID, backend, coll, lib>>

\* main.go 257-264: GetFirstDevice, NewClient
GetDevice ==
    /\ pc = "getDevice"
    /\ \E ok \in BOOLEAN :
        IF ok
            THEN pc' = "identity" /\ UNCHANGED output
            ELSE Fail("failed to get device")
    /\ UNCHANGED <<inputs, sync, defers, locals, store, backend, coll, lib>>

\* A reset only when the forced relink moves the session to another account.
ResetSessionOnlyForOtherAccount(existing, account, forceRelink) ==
    existing # <<>> /\ forceRelink /\ JIDString(existing[1]) # JIDString(account)

\* An identity check that lets a differing stored identity through.
IdentityMismatchIgnored(existing, account, forceRelink) ==
    existing # <<>> /\ JIDString(existing[1]) # JIDString(account) /\ forceRelink

\* main.go 266-290: resetSession is TRUE exactly when the next position is "reset"
ResetSession(existing, account, forceRelink) ==
    existing # <<>> /\ forceRelink

IdentityMismatch(existing, account, forceRelink) ==
    /\ existing # <<>>
    /\ JIDString(existing[1]) # JIDString(account)
    /\ ~forceRelink

ResolveIdentity ==
    /\ pc = "identity"
    /\ IF IdentityMismatch(storeID, accountJID, cfg.ForceRelink)
            THEN Fail("stored session is linked to another account")
       ELSE IF ResetSession(storeID, accountJID, cfg.ForceRelink)
            THEN pc' = "reset" /\ UNCHANGED output
       ELSE pc' = "targets" /\ UNCHANGED output
    /\ UNCHANGED <<inputs, sync, defers, locals, store, backend, coll, lib>>

\* main.go 292-306: Store.Delete, GetFirstDevice, NewClient.  Delete clears the
\* stored identity; the device made afterwards has no identity.
DoReset ==
    /\ pc = "reset"
    /\ \E outcome \in {"deleteFails", "deviceFails", "ok"} :
        CASE outcome = "deleteFails" ->
                Fail("failed to reset stored session") /\ UNCHANGED storeID
          [] outcome = "deviceFails" ->
                Fail("failed to prepare device after reset") /\ storeID' = <<>>
          [] OTHER ->
                pc' = "targets" /\ storeID' = <<>> /\ UNCHANGED output
    /\ UNCHANGED <<inputs, sync, defers, locals, storeOpen, storeOpens, backend, coll, lib>>

\* main.go 308-334
ParseTargets ==
    /\ pc = "targets"
    /\ LET st == parseChatIdentifier(cfg.Recipient)
           rt == parseChatIdentifier(cfg.ReadChat)
       IN
        IF cfg.ShouldSend /\ st.err
            THEN /\ Fail("invalid recipient")
                 /\ UNCHANGED <<sendTarget, readTarget, haveReadTarget, collector>>
        ELSE IF cfg.ShouldListen /\ rt.err
            THEN /\ Fail("invalid read_chat")
                 /\ sendTarget' = IF cfg.ShouldSend THEN st.jid ELSE sendTarget
                 /\ UNCHANGED <<readTarget, haveReadTarget, collector>>
        ELSE /\ sendTarget' = IF cfg.ShouldSend THEN st.jid ELSE sendTarget
             /\ IF cfg.ShouldListen
                    THEN /\ readTarget' = rt.jid
                         /\ haveReadTarget' = TRUE
                         /\ collector' =
                                <<newMessageCollector(cfg.ReadLimit,
                                                      determineBufferCap(cfg.ReadLimit))>>
                    ELSE UNCHANGED <<readTarget, haveReadTarget, collector>>
             /\ pc' = "addHandler"
             /\ UNCHANGED output
    /\ UNCHANGED <<inputs, sync, defers, cfg, accountJID, connected, store, backend,
                   timer, fired, arrivals, accepted, woke, lib>>

\* A WaRun that sets up its deferred calls but registers the handler later.
AddHandlerDefersOnly ==
    /\ pc = "addHandler"
    /\ connected' = FALSE
    /\ defers' = <<"disconnect", "removeHandler">> \o defers
    /\ pc' = "connect"
    /\ UNCHANGED <<inputs, sync, cfg, accountJID, haveReadTarget, readTarget, sendTarget,
                   store, backend, coll, output, lib>>

\* A WaRun that defers the disconnect before it defers the removal of the
\* handler, so that the handler is removed first.
AddHandlerDefersSwapped ==
    /\ pc = "addHandler"
    /\ handlerRegistered' = TRUE
    /\ connected' = FALSE
    /\ defers' = <<"removeHandler", "disconnect">> \o defers
    /\ pc' = "connect"
    /\ UNCHANGED <<inputs, sync, cfg, accountJID, haveReadTarget, readTarget, sendTarget,
                   store, backendConnected, connectAttempts, stabilized, path, coll,
                   output, lib>>

\* main.go 336-370: AddEventHandler, defer RemoveEventHandler, connected := false,
\* defer func() { if connected { client.Disconnect() } }()
AddHandler ==
    /\ pc = "addHandler"
    /\ handlerRegistered' = TRUE
    /\ connected' = FALSE
    /\ defers' = <<"disconnect", "removeHandler">> \o defers
    /\ pc' = "connect"
    /\ UNCHANGED <<inputs, sync, cfg, accountJID, haveReadTarget, readTarget, sendTarget,
                   store, backendConnected, connectAttempts, stabilized, path, coll,
                   output, lib>>

\* main.go 372-413: both connect paths.  The pairing path is taken when the
\* client's store holds no identity.
\* A connect that never pairs.
ConnectPathAlwaysDirect(id) == "direct"

ConnectPath(id) == IF id = <<>> THEN "pairing" ELSE "direct"

Connect ==
    /\ pc = "connect"
    /\ connectAttempts' = connectAttempts + 1
    /\ path' = ConnectPath(storeID)
    /\ \E ok \in BOOLEAN :
        IF ok
            THEN /\ resp' = [resp EXCEPT !.RequiresQR = (storeID = <<>>)]
                 /\ connected' = TRUE
                 /\ backendConnected' = TRUE
                 /\ pc' = IF path' = "pairing" THEN "pairing" ELSE "stabilize"
                 /\ UNCHANGED out
            ELSE /\ resp' = [resp EXCEPT !.RequiresQR = (storeID = <<>>),
                                         !.Status = "error",
                                         !.Error = "failed to connect"]
                 /\ out' = Append(out, marshalResponse(resp'))
                 /\ pc' = "unwind"
                 /\ UNCHANGED <<connected, backendConnected>>
    /\ UNCHANGED <<inputs, sync, defers, cfg, accountJID, haveReadTarget, readTarget,
                   sendTarget, store, handlerRegistered, stabilized, coll, lib>>

\* main.go 384-402: one event of the pairing-code stream.  A successful pairing
\* stores the paired identity.
QrEvent ==
    /\ pc = "pairing"
    /\ \E e \in {"code", "scan", "timeout", "success"} :
        IF e = "success" /\ storeID = <<>>
            THEN storeID' = <<accountJID>>
            ELSE UNCHANGED storeID
    /\ UNCHANGED <<inputs, sync, ctl, locals, storeOpen, storeOpens, backend, coll, output, lib>>

\* main.go 384, 403-404: the pairing-code stream is closed
QrClosed ==
    /\ pc = "pairing"
    /\ pc' = "stabilize"
    /\ UNCHANGED <<inputs, sync, defers, locals, store, backend, coll, output, lib>>

\* A connection that is used at once, without the stabilization sleep.
StabilizeWithoutSleep ==
    /\ pc = "stabilize"
    /\ pc' = "send"
    /\ UNCHANGED <<inputs, sync, defers, locals, store, backend, coll, output, lib>>

\* main.go 415-418: if cfg.ShouldSend || cfg.ShouldListen { time.Sleep(3 *
\* time.Second) }; the step ends when the sleep has returned.
Stabilize ==
    /\ pc = "stabilize"
    /\ stabilized' = (cfg.ShouldSend \/ cfg.ShouldListen)
    /\ pc' = "send"
    /\ UNCHANGED <<inputs, sync, defers, locals, store, handlerRegistered, backendConnected,
                   connectAttempts, path, coll, output, lib>>

\* main.go 420-447
SentID == <<"s", "1">>

\* A send that answers a failure by going back to connect again.
SendReconnectsOnFailure ==
    /\ pc = "send"
    /\ IF ~cfg.ShouldSend
            THEN pc' = "listen" /\ UNCHANGED output
       ELSE IF cfg.SendText = <<>>
            THEN Fail("message is empty after conversion")
       ELSE \E ok \in BOOLEAN :
            IF ok
                THEN /\ resp' = [resp EXCEPT !.MessageID = SentID]
                     /\ pc' = "listen"
                     /\ UNCHANGED out
                ELSE pc' = "connect" /\ UNCHANGED output
    /\ UNCHANGED <<inputs, sync, defers, locals, store, backend, coll, lib>>

Send ==
    /\ pc = "send"
    /\ IF ~cfg.ShouldSend
            THEN pc' = "listen" /\ UNCHANGED output
       ELSE IF cfg.SendText = <<>>
            THEN Fail("message is empty after conversion")
       ELSE \E ok \in BOOLEAN :
            IF ok
                THEN /\ resp' = [resp EXCEPT !.MessageID = SentID]
                     /\ pc' = "listen"
                     /\ UNCHANGED out
                ELSE Fail("failed to send")
    /\ UNCHANGED <<inputs, sync, defers, locals, store, backend, coll, lib>>

\* A listen phase that never creates its timer.
StartListenWithoutTimer ==
    /\ pc = "listen"
    /\ pc' = IF collector # <<>> THEN "wait" ELSE "return"
    /\ UNCHANGED <<inputs, sync, defers, locals, store, backend, coll, output, lib>>

\* main.go 449-464: the timer of the listen phase, defer timer.Stop()
StartListen ==
    /\ pc = "listen"
    /\ IF collector # <<>>
            THEN /\ IF cfg.ListenDuration > 0
                        THEN timer' = "armed" /\ defers' = <<"timerStop">> \o defers
                        ELSE UNCHANGED <<timer, defers>>
                 /\ pc' = "wait"
            ELSE pc' = "return" /\ UNCHANGED <<timer, defers>>
    /\ UNCHANGED <<inputs, sync, locals, store, backend, collector, fired, arrivals,
                   accepted, woke, output, lib>>

\* The listen duration elapses.
TimerFire ==
    /\ timer = "armed"
    /\ timer' = "fired"
    /\ UNCHANGED <<inputs, sync, ctl, locals, store, backend, collector, fired, arrivals,
                   accepted, woke, output, lib>>

\* main.go 466-477: which channels the driving call waits on
WaitsOnDone(c, mc) == c.ReadLimit > 0 /\ mc.hasDone

\* main.go 469, 473: <-collector.done
WaitSignal ==
    /\ pc = "wait"
    /\ WaitsOnDone(cfg, collector[1])
    /\ collector[1].done = 1
    /\ collector' = <<[collector[1] EXCEPT !.done = 0]>>
    /\ woke' = "signal"
    /\ pc' = "snapshot"
    /\ UNCHANGED <<inputs, sync, defers, locals, store, backend, timer, fired, arrivals,
                   accepted, output, lib>>

\* main.go 470, 476: <-timeout; with neither channel to wait on there is no wait
WaitTimeout ==
    /\ pc = "wait"
    /\ IF timer = "nil" THEN ~WaitsOnDone(cfg, collector[1]) ELSE timer = "fired"
    /\ woke' = "timeout"
    /\ pc' = "snapshot"
    /\ UNCHANGED <<inputs, sync, defers, locals, store, backend, collector, timer, fired,
                   arrivals, accepted, output, lib>>

\* main.go 479-484
TakeSnapshot ==
    /\ pc = "snapshot"
    /\ resp' = [resp EXCEPT !.LastMessages = snapshot(collector[1])]
    /\ pc' = "return"
    /\ UNCHANGED <<inputs, sync, defers, locals, store, backend, coll, out, lib>>

\* A return that reads last_messages from the collector as it is by then.
ReturnReadsCollector ==
    /\ pc = "return"
    /\ out' = Append(out, marshalResponse(
                    [resp EXCEPT !.LastMessages =
                        IF collector = <<>> THEN <<>> ELSE snapshot(collector[1])]))
    /\ pc' = "unwind"
    /\ UNCHANGED <<inputs, sync, defers, locals, store, backend, coll, resp, lib>>

\* main.go 486-489: return marshalResponse(resp)
Return ==
    /\ pc = "return"
    /\ out' = Append(out, marshalResponse(resp))
    /\ pc' = "unwind"
    /\ UNCHANGED <<inputs, sync, defers, locals, store, backend, coll, resp, lib>>

\* Deferred calls of which the disconnect does nothing.
RunDeferredWithoutDisconnect(d) ==
    /\ timer' = IF d = "timerStop" THEN "stopped" ELSE timer
    /\ backendConnected' = backendConnected
    /\ handlerRegistered' = IF d = "removeHandler" THEN FALSE ELSE handlerRegistered
    /\ storeOpen' = IF d = "closeStore" THEN FALSE ELSE storeOpen

\* The deferred calls run last registered first: timer.Stop (462), the
\* disconnect (366-370), RemoveEventHandler (363), container.Close (255).
RunDeferred(d) ==
    /\ timer' = IF d = "timerStop" THEN "stopped" ELSE timer
    /\ backendConnected' =
            IF d = "disconnect" /\ connected THEN FALSE ELSE backendConnected
    /\ handlerRegistered' = IF d = "removeHandler" THEN FALSE ELSE handlerRegistered
    /\ storeOpen' = IF d = "closeStore" THEN FALSE ELSE storeOpen

Unwind ==
    /\ pc = "unwind"
    /\ defers # <<>>
    /\ RunDeferred(Head(defers))
    /\ defers' = Tail(defers)
    /\ UNCHANGED <<inputs, sync, pc, locals, storeOpens, storeID, connectAttempts,
                   stabilized, path, collector, fired, arrivals, accepted, woke,
                   output, lib>>

\* WaRun has returned to its caller.
Finish ==
    /\ pc = "unwind"
    /\ defers = <<>>
    /\ pc' = "done"
    /\ UNCHANGED <<inputs, sync, defers, locals, store, backend, coll, output, lib>>

\* main.go 336-362: the backend calls the event callback with one event
Deliver ==
    /\ entry = "WaRun"
    /\ backendConnected
    /\ handlerRegistered
    /\ arrivals < MaxArrivals
    /\ \E evt \in BridgeEvents :
        IF HandlerAccepts(collector, haveReadTarget, readTarget, evt)
            THEN /\ collector' = <<add(collector[1], FormatBridge(evt))>>
                 /\ fired' = fired + AddFires(collector[1], FormatBridge(evt))
                 /\ arrivals' = arrivals + 1
                 /\ accepted' = Append(accepted, FormatBridge(evt))
            ELSE UNCHANGED <<collector, fired, arrivals, accepted>>
    /\ UNCHANGED <<inputs, sync, ctl, locals, store, backend, timer, woke, output, lib>>

\* ------------------------------------------------ library: records

\* extractMessageText: the first non-empty of the content variants (of the
\* variants after the first two the model carries the image caption).
extractMessageText(evt) ==
    IF ~evt.hasMessage THEN <<>>
    ELSE IF evt.conv # <<>> THEN evt.conv
    ELSE IF evt.ext # <<>> THEN evt.ext
    ELSE evt.caption

senderLabel(evt) ==
    IF evt.fromMe THEN LabelSelf
    ELSE IF TrimSpace(evt.pushName) # <<>> THEN TrimSpace(evt.pushName)
    ELSE IF evt.senderUser # <<>> THEN evt.senderUser
    ELSE LabelPeer

\* timestamp.Format("02.01.2006 15:04"): timestamps count half minutes, the
\* rendering keeps the minute.
FormatStamp(ts) == <<DigitChar(ts \div 2)>>

\* newMessageRecord; now is the clock's time, used for a zero timestamp.
newMessageRecord(evt, now) ==
    LET text == TrimSpace(extractMessageText(evt))
        timestamp == IF evt.ts = 0 THEN now ELSE evt.ts
        sender == senderLabel(evt)
    IN
    IF ~evt.hasMessage \/ text = <<>>
        THEN [ok |-> FALSE, record |-> [key |-> <<>>, timestamp |-> 0, content |-> <<>>]]
        ELSE [ok |-> TRUE,
              record |->
                [key |-> DedupKey(evt.id, timestamp, sender, evt.fromMe, text),
                 timestamp |-> timestamp,
                 content |-> <<"[">> \o FormatStamp(timestamp) \o <<"]", " ">>
                                \o sender \o <<":", " ">> \o text]]

\* appendRecord, on the log and the seen set
appendRecord(log, seen, record) ==
    IF record.key \in seen
        THEN [ok |-> FALSE, log |-> log, seen |-> seen]
        ELSE [ok |-> TRUE, log |-> Append(log, record), seen |-> seen \cup {record.key}]

\* The less function of snapshotRecords' sort.
RecordLess(a, b) ==
    IF a.timestamp = b.timestamp THEN StrLess(a.content, b.content)
    ELSE a.timestamp < b.timestamp

\* sort.SliceStable: r goes after every element that is not greater than it.
RECURSIVE InsertStable(_, _)
InsertStable(sorted, r) ==
    IF sorted = <<>> THEN <<r>>
    ELSE IF RecordLess(r, Head(sorted)) THEN <<r>> \o sorted
    ELSE <<Head(sorted)>> \o InsertStable(Tail(sorted), r)

RECURSIVE SortStable(_)
SortStable(records) ==
    IF records = <<>> THEN <<>>
    ELSE InsertStable(SortStable(SubSeq(records, 1, Len(records) - 1)),
                      records[Len(records)])

snapshotRecords(records, limit) ==
    LET sorted == SortStable(records) IN
    IF limit > 0 /\ Len(sorted) > limit
        THEN SubSeq(sorted, Len(sorted) - limit + 1, Len(sorted))
        ELSE sorted

recordsToStrings(records) == [i \in 1..Len(records) |-> records[i].content]

\* ------------------------------------------- library: history sync

\* A conversation of a history sync: nil, or its ID and its messages; a message
\* is nil, or a web message that ParseWebMessage fails on, or one it turns into
\* an event.
NilConv == [nil |-> TRUE, id |-> <<>>, msgs |-> <<>>]
Conv(id, msgs) == [nil |-> FALSE, id |-> id, msgs |-> msgs]
NilMsg == [nil |-> TRUE, parses |-> FALSE, evt |-> MessageEvent(<<>>, 0, FALSE, EmptyJID, FALSE, <<>>, <<>>)]
BadMsg == [nil |-> FALSE, parses |-> FALSE, evt |-> MessageEvent(<<>>, 0, FALSE, EmptyJID, FALSE, <<>>, <<>>)]
WebMsg(evt) == [nil |-> FALSE, parses |-> TRUE, evt |-> evt]

\* types.ParseJID of a conversation ID: a user part holding ":" is refused.
ParseChatID(id) ==
    IF ~ContainsAt(id) THEN [err |-> FALSE, jid |-> NewJID(<<>>, id)]
    ELSE IF \E i \in 1..(AtIndex(id) - 1) : id[i] = ":" THEN [err |-> TRUE, jid |-> EmptyJID]
    ELSE ParseJID(id)

\* processHistorySyncMessages 452-472: the messages of one conversation
RECURSIVE HistoryMessages(_, _, _, _, _)
HistoryMessages(msgs, includeFromMe, now, st, chatJID) ==
    IF msgs = <<>> THEN st
    ELSE LET m == Head(msgs)
             made == newMessageRecord([m.evt EXCEPT !.chat = chatJID], now)
             res == appendRecord(st.log, st.seen, made.record)
             st1 ==
                IF m.nil \/ ~m.parses THEN st
                ELSE IF m.evt.fromMe /\ ~includeFromMe THEN st
                ELSE IF ~made.ok THEN st
                ELSE [added |-> st.added + (IF res.ok THEN 1 ELSE 0),
                      log |-> res.log, seen |-> res.seen]
         IN HistoryMessages(Tail(msgs), includeFromMe, now, st1, chatJID)

\* processHistorySyncMessages 432-473: the conversations
RECURSIVE HistoryConversations(_, _, _, _, _)
HistoryConversations(convs, targetJID, includeFromMe, now, st) ==
    IF convs = <<>> THEN st
    ELSE LET conv == Head(convs)
             parsed == ParseChatID(conv.id)
             st1 ==
                IF conv.nil \/ conv.id = <<>> THEN st
                ELSE IF parsed.err THEN st
                ELSE IF targetJID # <<>> /\ JIDString(parsed.jid) # targetJID THEN st
                ELSE HistoryMessages(conv.msgs, includeFromMe, now, st, parsed.jid)
         IN HistoryConversations(Tail(convs), targetJID, includeFromMe, now, st1)

processHistorySyncMessages(history, targetJID, includeFromMe, now, log, seen) ==
    IF ~history.hasData THEN [added |-> 0, log |-> log, seen |-> seen]
    ELSE HistoryConversations(history.conversations, targetJID, includeFromMe, now,
                              [added |-> 0, log |-> log, seen |-> seen])

\* ------------------------------------------------------ library: Run

\* parseChatIdentifier of the library
libParseChatIdentifier(value) ==
    IF ContainsAt(value) THEN ParseJID(value)
    ELSE [err |-> FALSE, jid |-> NewJID(value, DefaultUserServer)]

\* resolveTargetJID: the target and its string ("" when there is none)
resolveTargetJID(c) ==
    LET chatIdentifier == TrimSpace(c.Chat)
        parsed == libParseChatIdentifier(chatIdentifier)
        phoneNumber == TrimSpace(c.PhoneNumber)
    IN
    IF chatIdentifier # <<>>
        THEN [err |-> parsed.err, jid |-> parsed.jid,
              str |-> IF parsed.err THEN <<>> ELSE JIDString(parsed.jid)]
    ELSE IF phoneNumber = <<>> THEN [err |-> FALSE, jid |-> EmptyJID, str |-> <<>>]
    ELSE [err |-> FALSE, jid |-> NewJID(phoneNumber, DefaultUserServer),
          str |-> JIDString(NewJID(phoneNumber, DefaultUserServer))]

\* The library's Config (the fields the run's control flow reads).
LibConfigs ==
    [PhoneNumber : {<<" ">>, <<"1", "2", "3">>},
     Chat : {<<>>},
     Message : {<<>>, Hi},
     ReadLimit : {-1, 1},
     IncludeFromMe : BOOLEAN,
     IncludeFromMeSet : BOOLEAN]

LibEvents ==
    TextEvents \cup DroppedEvents
        \cup { MessageEvent(<<>>, ts, FALSE, TargetChat, TRUE, Hi, <<>>) : ts \in 0..MaxTs }
        \cup { MessageEvent(<<"w">>, 1, FALSE, TargetChat, TRUE, <<" ">>, <<>>) }

TargetID == JIDString(TargetChat)

HistoryBatches ==
    { [hasData |-> FALSE, conversations |-> <<>>],
      [hasData |-> TRUE, conversations |->
        <<Conv(TargetID, <<BadMsg,
                           WebMsg(MessageEvent(MessageID(MaxTs, FALSE), MaxTs, FALSE,
                                               EmptyJID, TRUE, Hi, <<>>)),
                           WebMsg(MessageEvent(MessageID(1, FALSE), 1, FALSE,
                                               EmptyJID, TRUE, Hi, <<>>))>>)>>],
      [hasData |-> TRUE, conversations |->
        <<NilConv,
          Conv(<<>>, <<>>),
          Conv(<<":", "@", "s">>, <<>>),
          Conv(JIDString(OtherChat),
               <<WebMsg(MessageEvent(<<"o">>, 1, FALSE, EmptyJID, TRUE, Hi, <<>>))>>),
          Conv(TargetID, <<NilMsg,
                           WebMsg(MessageEvent(MessageID(1, TRUE), 1, TRUE,
                                               EmptyJID, TRUE, Hi, <<>>))>>)>>] }

LibInit ==
    /\ entry = "Run"
    /\ phone = <<>>
    /\ req \in LibConfigs
    /\ storeID \in {<<>>, <<AccountA>>}
    /\ pc = "lib_start"
    /\ collector = <<>>
    /\ Fresh

\* return nil, err
LibFail(kind) ==
    /\ resp' = [resp EXCEPT !.Status = "error", !.Error = kind]
    /\ out' = <<[result |-> <<>>, err |-> kind]>>
    /\ pc' = "unwind"

\* part_000 50-95: the checks and defaults before anything is opened.  cfg holds
\* the locals readLimit, targetJID, targetJIDString and includeFromMe (122-125).
LibPrepare ==
    /\ pc = "lib_start"
    /\ LET target == resolveTargetJID(req) IN
        IF TrimSpace(req.PhoneNumber) = <<>> /\ TrimSpace(req.Chat) = <<>>
            THEN LibFail("phone number or chat is required") /\ UNCHANGED cfg
        ELSE IF target.err
            THEN LibFail("resolve chat") /\ UNCHANGED cfg
        ELSE IF req.Message # <<>> /\ target.str = <<>>
            THEN LibFail("target chat is required to send messages") /\ UNCHANGED cfg
        ELSE /\ cfg' = [readLimit |-> IF req.ReadLimit < 0 THEN 0 ELSE req.ReadLimit,
                        targetJID |-> target.jid,
                        targetJIDString |-> target.str,
                        includeFromMe |->
                            IF ~req.IncludeFromMeSet THEN TRUE ELSE req.IncludeFromMe,
                        Message |-> req.Message]
             /\ pc' = "lib_openStore"
             /\ UNCHANGED output
    /\ UNCHANGED <<inputs, sync, defers, accountJID, connected, haveReadTarget, readTarget,
                   sendTarget, store, backend, coll, lib>>

\* part_000 99-102: sqlstore.New
LibOpenStore ==
    /\ pc = "lib_openStore"
    /\ \E ok \in BOOLEAN :
        IF ok
            THEN /\ storeOpen' = TRUE
                 /\ storeOpens' = storeOpens + 1
                 /\ pc' = "lib_getDevice"
                 /\ UNCHANGED output
            ELSE LibFail("init store") /\ UNCHANGED <<storeOpen, storeOpens>>
    /\ UNCHANGED <<inputs, sync, defers, locals, storeID, backend, coll, lib>>

\* part_000 104-109: GetFirstDevice, NewClient
LibGetDevice ==
    /\ pc = "lib_getDevice"
    /\ \E ok \in BOOLEAN :
        IF ok THEN pc' = "lib_addHandler" /\ UNCHANGED output
              ELSE LibFail("get device")
    /\ UNCHANGED <<inputs, sync, defers, locals, store, backend, coll, lib>>

\* part_000 111-155: the log, the seen set, AddEventHandler, result := &Result{}
LibAddHandler ==
    /\ pc = "lib_addHandler"
    /\ handlerRegistered' = TRUE
    /\ pc' = "lib_connect"
    /\ UNCHANGED <<inputs, sync, defers, locals, store, backendConnected, connectAttempts,
                   stabilized, path, coll, output, lib>>

\* part_000 156-176: both connect paths
LibConnect ==
    /\ pc = "lib_connect"
    /\ connectAttempts' = connectAttempts + 1
    /\ path' = ConnectPath(storeID)
    /\ \E ok \in BOOLEAN :
        IF ok
            THEN /\ resp' = [resp EXCEPT !.RequiresQR = (storeID = <<>>)]
                 /\ backendConnected' = TRUE
                 /\ pc' = IF path' = "pairing" THEN "lib_pairing" ELSE "lib_connected"
                 /\ UNCHANGED out
            ELSE /\ resp' = [resp EXCEPT !.RequiresQR = (storeID = <<>>),
                                         !.Status = "error", !.Error = "connect"]
                 /\ out' = <<[result |-> <<>>, err |-> "connect"]>>
                 /\ pc' = "unwind"
                 /\ UNCHANGED backendConnected
    /\ UNCHANGED <<inputs, sync, defers, locals, store, handlerRegistered, stabilized, coll,
                   lib>>

\* part_000 164-170: one event of the pairing-code stream
LibQrEvent ==
    /\ pc = "lib_pairing"
    /\ \E e \in {"code", "success"} :
        IF e = "success" /\ storeID = <<>>
            THEN storeID' = <<AccountA>>
            ELSE UNCHANGED storeID
    /\ UNCHANGED <<inputs, sync, ctl, locals, storeOpen, storeOpens, backend, coll, output, lib>>

\* part_000 164, 170: the pairing-code stream is closed
LibQrClosed ==
    /\ pc = "lib_pairing"
    /\ pc' = "lib_connected"
    /\ UNCHANGED <<inputs, sync, defers, locals, store, backend, coll, output, lib>>

\* part_000 178-186: connected := true, the deferred disconnect, the
\* stabilization sleep
LibStabilize ==
    /\ pc = "lib_connected"
    /\ connected' = TRUE
    /\ defers' = <<"disconnect">> \o defers
    /\ stabilized' = TRUE
    /\ pc' = "lib_send"
    /\ UNCHANGED <<inputs, sync, cfg, accountJID, haveReadTarget, readTarget, sendTarget,
                   store, handlerRegistered, backendConnected, connectAttempts, path,
                   coll, output, lib>>

\* part_000 188-216: the first snapshot is printed only; then the send
LibSend ==
    /\ pc = "lib_send"
    /\ IF cfg.Message = <<>>
            THEN pc' = "lib_listen" /\ UNCHANGED output
       ELSE \E ok \in BOOLEAN :
            IF ok
                THEN /\ resp' = [resp EXCEPT !.MessageID = SentID]
                     /\ pc' = "lib_listen"
                     /\ UNCHANGED out
                ELSE /\ resp' = [resp EXCEPT !.Status = "error", !.Error = "send message"]
                     /\ out' = <<[result |-> <<[LastMessages |-> <<>>,
                                               MessageID |-> resp.MessageID,
                                               RequiresQR |-> resp.RequiresQR]>>,
                                 err |-> "send message"]>>
                     /\ pc' = "unwind"
    /\ UNCHANGED <<inputs, sync, defers, locals, store, backend, coll, lib>>

\* part_000 218-219: time.Sleep(listenAfterSend) begins
LibStartListen ==
    /\ pc = "lib_listen"
    /\ timer' = "armed"
    /\ pc' = "lib_sleeping"
    /\ UNCHANGED <<inputs, sync, defers, locals, store, backend, collector, fired, arrivals,
                   accepted, woke, output, lib>>

\* part_000 219-223: the sleep ends when the duration has elapsed; the final
\* snapshot
LibFinalSnapshot ==
    /\ pc = "lib_sleeping"
    /\ timer = "fired"
    /\ woke' = "timeout"
    /\ resp' = [resp EXCEPT !.LastMessages = snapshotRecords(messageLog, cfg.readLimit)]
    /\ pc' = "lib_disconnect"
    /\ UNCHANGED <<inputs, sync, defers, locals, store, backend, collector, timer, fired,
                   arrivals, accepted, out, lib>>

\* part_000 225-228: connected = false, client.Disconnect(), return result, nil
LibDisconnect ==
    /\ pc = "lib_disconnect"
    /\ connected' = FALSE
    /\ backendConnected' = FALSE
    /\ out' = <<[result |-> <<[LastMessages |-> recordsToStrings(resp.LastMessages),
                              MessageID |-> resp.MessageID,
                              RequiresQR |-> resp.RequiresQR]>>,
                err |-> ""]>>
    /\ pc' = "unwind"
    /\ UNCHANGED <<inputs, sync, defers, cfg, accountJID, haveReadTarget, readTarget,
                   sendTarget, store, handlerRegistered, connectAttempts, stabilized,
                   path, coll, resp, lib>>

\* part_000 129-141: the callback gets a live message
LibLive ==
    /\ entry = "Run"
    /\ backendConnected
    /\ handlerRegistered
    /\ arrivals < MaxArrivals
    /\ \E evt \in LibEvents, now \in {MaxTs} :
        LET made == newMessageRecord(evt, now)
            res == appendRecord(messageLog, seenMessages, made.record)
        IN
        IF \/ cfg.targetJIDString # <<>> /\ JIDString(evt.chat) # cfg.targetJIDString
           \/ evt.fromMe /\ ~cfg.includeFromMe
           \/ ~made.ok
           \/ ~res.ok
            THEN UNCHANGED <<lib, arrivals>>
            ELSE /\ messageLog' = res.log
                 /\ seenMessages' = res.seen
                 /\ arrivals' = arrivals + 1
    /\ UNCHANGED <<inputs, sync, ctl, locals, store, backend, collector, timer, fired,
                   accepted, woke, output>>

\* part_000 143-152: the callback gets a history sync
LibHistory ==
    /\ entry = "Run"
    /\ backendConnected
    /\ handlerRegistered
    /\ \E history \in HistoryBatches, now \in {MaxTs} :
        LET res == processHistorySyncMessages(history, cfg.targetJIDString,
                                              cfg.includeFromMe, now, messageLog,
                                              seenMessages)
        IN
        /\ arrivals + res.added <= MaxArrivals
        /\ messageLog' = res.log
        /\ seenMessages' = res.seen
        /\ arrivals' = arrivals + res.added
    /\ UNCHANGED <<inputs, sync, ctl, locals, store, backend, collector, timer, fired,
                   accepted, woke, output>>

Next ==
    \/ ParseAccount
    \/ Normalize
    \/ OpenStore
    \/ GetDevice
    \/ ResolveIdentity
    \/ DoReset
    \/ ParseTargets
    \/ AddHandler
    \/ Connect
    \/ QrEvent
    \/ QrClosed
    \/ Stabilize
    \/ Send
    \/ StartListen
    \/ TimerFire
    \/ WaitSignal
    \/ WaitTimeout
    \/ TakeSnapshot
    \/ Return
    \/ Unwind
    \/ Finish
    \/ Deliver
    \/ LibPrepare
    \/ LibOpenStore
    \/ LibGetDevice
    \/ LibAddHandler
    \/ LibConnect
    \/ LibQrEvent
    \/ LibQrClosed
    \/ LibStabilize
    \/ LibSend
    \/ LibStartListen
    \/ LibFinalSnapshot
    \/ LibDisconnect
    \/ LibLive
    \/ LibHistory

Init == WaRunInit \/ LibInit

Spec == Init /\ [][Next]_vars


\* ------------------------------------------- WaRun calls that listen

\* Requests with a recipient, which is then the read target: every plan made
\* of them listens.  The store is paired with the requested account, so the
\* calls connect directly.
ListenRequests ==
    { [kind |-> "object", text |-> <<>>,
       obj |-> [SendText |-> p[1], Recipient |-> <<"1", "2", "3">>, ReadChat |-> <<>>,
                ReadLimit |-> p[2], ListenSeconds |-> p[3], ShowQR |-> FALSE,
                ForceRelink |-> FALSE]] :
        p \in {<<>>, Hi} \X {<<>>, <<0>>, <<1>>} \X {0, 1, 2} }

ListenInit ==
    /\ entry = "WaRun"
    /\ phone = <<"1">>
    /\ req \in ListenRequests
    /\ storeID = <<AccountA>>
    /\ pc = "start"
    /\ collector = <<>>
    /\ Fresh

WaRunNext ==
    \/ ParseAccount
    \/ Normalize
    \/ OpenStore
    \/ GetDevice
    \/ ResolveIdentity
    \/ ParseTargets
    \/ AddHandler
    \/ Connect
    \/ Stabilize
    \/ Send
    \/ StartListen
    \/ TimerFire
    \/ WaitSignal
    \/ WaitTimeout
    \/ TakeSnapshot
    \/ Return
    \/ Unwind
    \/ Finish
    \/ Deliver

\* The steps of the driving call are taken when they can be, and the timer of
\* the listen phase fires once its duration has elapsed.
ListenFairness ==
    /\ WF_vars(TimerFire)
    /\ WF_vars(WaitSignal)
    /\ WF_vars(WaitTimeout)
    /\ WF_vars(TakeSnapshot)
    /\ WF_vars(Return)

SpecListen == ListenInit /\ [][WaRunNext]_vars /\ ListenFairness

\* --------------------------------------- normalizeConfig on its own

\* The objects a caller can write: read_limit absent (<<>>) or present,
\* listen_seconds in half ticks of the duration's resolution.
ConfigObjects ==
    [SendText : {<<>>, <<" ">>, Hi},
     Recipient : {<<>>, <<" ">>, <<"1", "2", "3">>},
     ReadChat : {<<>>, <<" ">>, <<"5">>},
     ReadLimit : {<<>>} \cup { <<n>> : n \in -1..MaxArrivals },
     ListenSeconds : -1..MaxListen,
     ShowQR : BOOLEAN,
     ForceRelink : BOOLEAN]

\* The object that carries nothing.
EmptyObject == [EmptyPayload EXCEPT !.ReadLimit = <<>>]

ConfigRequests ==
    { [kind |-> "object", text |-> <<>>, obj |-> o] : o \in ConfigObjects }
        \cup { [kind |-> "text", text |-> t, obj |-> EmptyObject] :
                    t \in {<<>>, <<" ">>, Hi, <<" ", "h", " ">>} }
        \cup { [kind |-> "badjson", text |-> <<>>, obj |-> EmptyObject] }

ConfigInit ==
    /\ entry = "normalizeConfig"
    /\ phone = <<>>
    /\ req \in ConfigRequests
    /\ storeID = <<>>
    /\ pc = "cfg_start"
    /\ collector = <<>>
    /\ Fresh

\* cfg, err := normalizeConfig(goMessage)
NormalizeConfig ==
    /\ entry = "normalizeConfig"
    /\ pc = "cfg_start"
    /\ LET n == normalizeConfig(req) IN
        /\ cfg' = n.cfg
        /\ resp' = [resp EXCEPT !.Status = IF n.err = "" THEN "ok" ELSE "error",
                                 !.Error = n.err]
    /\ pc' = "cfg_done"
    /\ UNCHANGED <<inputs, sync, defers, accountJID, connected, haveReadTarget, readTarget,
                   sendTarget, store, backend, coll, out, lib>>

SpecConfig == ConfigInit /\ [][NormalizeConfig]_vars

\* ------------------------------------------- the collector on its own

\* newMessageCollector with small targets and caps, then any adds, any
\* receives from done and any snapshots.
CollectorInit ==
    /\ entry = "collector"
    /\ phone = <<>>
    /\ req = EmptyPayload
    /\ storeID = <<>>
    /\ pc = "collector"
    /\ \E limit \in 0..MaxArrivals, bufferCap \in 0..MaxArrivals :
        collector = <<newMessageCollector(limit, bufferCap)>>
    /\ Fresh

CollectorAdd ==
    /\ entry = "collector"
    /\ arrivals <= MaxArrivals
    /\ \E evt \in TextEvents :
        /\ collector' = <<add(collector[1], FormatBridge(evt))>>
        /\ fired' = fired + AddFires(collector[1], FormatBridge(evt))
        /\ arrivals' = arrivals + 1
        /\ accepted' = Append(accepted, FormatBridge(evt))
    /\ UNCHANGED <<inputs, sync, ctl, locals, store, backend, timer, woke, output, lib>>

\* <-mc.done
CollectorReceive ==
    /\ entry = "collector"
    /\ collector[1].done = 1
    /\ collector' = <<[collector[1] EXCEPT !.done = 0]>>
    /\ woke' = "signal"
    /\ UNCHANGED <<inputs, sync, ctl, locals, store, backend, timer, fired, arrivals,
                   accepted, output, lib>>

CollectorSnapshot ==
    /\ entry = "collector"
    /\ resp' = [resp EXCEPT !.LastMessages = snapshot(collector[1])]
    /\ UNCHANGED <<inputs, sync, ctl, locals, store, backend, coll, out, lib>>

CollectorNext == CollectorAdd \/ CollectorReceive \/ CollectorSnapshot

SpecCollector == CollectorInit /\ [][CollectorNext]_vars

\* ------------------------------- the collector WaRun builds for a limit

\* Positive read limits: small ones, and those next to the default and the
\* largest retention cap.
CapLimits ==
    (1..MaxArrivals) \cup {defaultMessageBuffer, defaultMessageBuffer + 1,
                          maxMessageBuffer, maxMessageBuffer + 1}

CapInit ==
    /\ entry = "determineBufferCap"
    /\ phone = <<>>
    /\ req \in { [limit |-> l] : l \in CapLimits }
    /\ storeID = <<>>
    /\ pc = "cap_start"
    /\ collector = <<>>
    /\ Fresh

\* main.go 333: newMessageCollector(cfg.ReadLimit, determineBufferCap(cfg.ReadLimit))
CapBuild ==
    /\ entry = "determineBufferCap"
    /\ pc = "cap_start"
    /\ collector' = <<newMessageCollector(req.limit, determineBufferCap(req.limit))>>
    /\ pc' = "cap_built"
    /\ UNCHANGED <<inputs, sync, defers, locals, store, backend, timer, fired, arrivals,
                   accepted, woke, output, lib>>

\* main.go 359: one matching message after another, read_limit of them
CapAdd ==
    /\ entry = "determineBufferCap"
    /\ pc = "cap_built"
    /\ arrivals < req.limit
    /\ LET e == FormatBridge(MessageEvent(MessageID(1, FALSE), 1, FALSE, TargetChat,
                                          TRUE, Hi, <<>>))
       IN
        /\ collector' = <<add(collector[1], e)>>
        /\ fired' = fired + AddFires(collector[1], e)
        /\ accepted' = Append(accepted, e)
    /\ arrivals' = arrivals + 1
    /\ UNCHANGED <<inputs, sync, ctl, locals, store, backend, timer, woke, output, lib>>

CapNext == CapBuild \/ CapAdd

SpecCap == CapInit /\ [][CapNext]_vars

\* ------------------------------ the collector, lock by lock

\* What a thread has still to do is a sequence of operations, the first one
\* next.  "lock" and "unlock" are mu.Lock() and mu.Unlock() (deferred or not).
Op(name, arg) == [op |-> name, arg |-> arg]

NextOp(t) == Head(threads[t])

Doing(t, name) == threads[t] # <<>> /\ NextOp(t).op = name

Advance(t) == threads' = [threads EXCEPT ![t] = Tail(@)]

\* sync.Mutex.Lock: waits until the mutex is free
Lock(t) ==
    /\ Doing(t, "lock")
    /\ mu = "free"
    /\ mu' = t
    /\ Advance(t)
    /\ UNCHANGED <<inputs, ctl, locals, store, backend, coll, output, lib>>

\* sync.Mutex.Unlock
Unlock(t) ==
    /\ Doing(t, "unlock")
    /\ mu' = "free"
    /\ Advance(t)
    /\ UNCHANGED <<inputs, ctl, locals, store, backend, coll, output, lib>>

\* main.go 90-105: messageCollector.add(msg)
AddProgram(e) ==
    <<Op("lock", <<>>), Op("append", e), Op("signal", <<>>), Op("unlock", <<>>)>>

\* main.go 466-483: the listen wait, then collector.snapshot() (107-114)
WaitProgram ==
    <<Op("receive", <<>>), Op("lock", <<>>), Op("copy", <<>>), Op("unlock", <<>>)>>

\* main.go 94-97
AppendOp(t) ==
    /\ Doing(t, "append")
    /\ collector' = <<[collector[1] EXCEPT
                            !.messages = AddMessages(collector[1], NextOp(t).arg)]>>
    /\ accepted' = Append(accepted, NextOp(t).arg)
    /\ Advance(t)
    /\ UNCHANGED <<inputs, ctl, locals, store, backend, timer, fired, arrivals, woke,
                   output, lib, mu>>

\* A send on mc.done that waits for room in the channel.
SignalOpBlocking(t) ==
    /\ Doing(t, "signal")
    /\ LET mc == collector[1] IN
        IF AddSignals(mc, mc.messages)
            THEN /\ mc.done = 0
                 /\ collector' = <<[mc EXCEPT !.done = 1]>>
                 /\ fired' = fired + 1
            ELSE UNCHANGED <<collector, fired>>
    /\ Advance(t)
    /\ UNCHANGED <<inputs, ctl, locals, store, backend, timer, arrivals, accepted,
                   woke, output, lib, mu>>

\* main.go 99-104: select { case mc.done <- struct{}{}: default: }
SignalOp(t) ==
    /\ Doing(t, "signal")
    /\ LET mc == collector[1] IN
        IF AddSignals(mc, mc.messages) /\ mc.done = 0
            THEN /\ collector' = <<[mc EXCEPT !.done = 1]>>
                 /\ fired' = fired + 1
            ELSE UNCHANGED <<collector, fired>>
    /\ Advance(t)
    /\ UNCHANGED <<inputs, ctl, locals, store, backend, timer, arrivals, accepted,
                   woke, output, lib, mu>>

\* main.go 466-477: the driving call waits on done, on the timer, on both or
\* on neither
ReceiveOp(t) ==
    /\ Doing(t, "receive")
    /\ LET mc == collector[1]
           onDone == mc.limit > 0 /\ mc.hasDone
       IN
        \/ /\ onDone /\ mc.done = 1
           /\ collector' = <<[mc EXCEPT !.done = 0]>>
           /\ woke' = "signal"
        \/ /\ IF timer = "nil" THEN ~onDone ELSE timer = "fired"
           /\ woke' = "timeout"
           /\ UNCHANGED collector
    /\ Advance(t)
    /\ UNCHANGED <<inputs, ctl, locals, store, backend, timer, fired, arrivals,
                   accepted, output, lib, mu>>

\* main.go 111-113, 483
CopyOp(t) ==
    /\ Doing(t, "copy")
    /\ resp' = [resp EXCEPT !.LastMessages = snapshot(collector[1])]
    /\ Advance(t)
    /\ UNCHANGED <<inputs, ctl, locals, store, backend, coll, out, lib, mu>>

\* A collector as a listening WaRun makes it, the driving call not yet at its
\* listen wait ("before"), with or without a timer to come.
AddInit ==
    /\ entry = "add"
    /\ phone = <<>>
    /\ req \in {[timed |-> TRUE], [timed |-> FALSE]}
    /\ storeID = <<>>
    /\ pc = "before"
    /\ \E limit \in 0..MaxArrivals, bufferCap \in 1..MaxArrivals :
        collector = <<newMessageCollector(limit, bufferCap)>>
    /\ Fresh

\* main.go 359: the callback calls collector.add
CallAdd ==
    /\ entry = "add"
    /\ threads["live"] = <<>>
    /\ arrivals <= MaxArrivals
    /\ \E evt \in { e \in TextEvents : ~e.fromMe /\ e.ts \in {1, MaxTs} } :
        threads' = [threads EXCEPT !["live"] = AddProgram(FormatBridge(evt))]
    /\ arrivals' = arrivals + 1
    /\ UNCHANGED <<inputs, ctl, locals, store, backend, collector, timer, fired,
                   accepted, woke, output, lib, mu>>

\* main.go 459-466: the driving call creates its timer and begins to wait
CallWait ==
    /\ entry = "add"
    /\ pc = "before"
    /\ pc' = "listening"
    /\ timer' = IF req.timed THEN "armed" ELSE timer
    /\ threads' = [threads EXCEPT !["run"] = WaitProgram]
    /\ UNCHANGED <<inputs, defers, locals, store, backend, collector, fired, arrivals,
                   accepted, woke, output, lib, mu>>

\* main.go 484-489: the driving call is through with the collector
WaitOver ==
    /\ entry = "add"
    /\ pc = "listening"
    /\ threads["run"] = <<>>
    /\ pc' = "after"
    /\ UNCHANGED <<inputs, defers, locals, store, backend, coll, output, lib, sync>>

\* One step of thread t inside the bridge's collector.
AddStep(t) ==
    \/ Lock(t)
    \/ Unlock(t)
    \/ AppendOp(t)
    \/ SignalOp(t)
    \/ ReceiveOp(t)
    \/ CopyOp(t)

AddNext ==
    \/ CallAdd
    \/ CallWait
    \/ WaitOver
    \/ TimerFire
    \/ AddStep("live")
    \/ AddStep("run")

\* Each thread goes on when it can; the timer fires once armed.
AddFairness ==
    /\ WF_vars(AddStep("live"))
    /\ WF_vars(AddStep("run"))
    /\ WF_vars(TimerFire)

SpecAdd == AddInit /\ [][AddNext]_vars /\ AddFairness

\* ------------------------------------ the library's mutex, lock by lock

\* part_000 116-120: println locks messagesMu, prints, unlocks
Println == <<Op("lock", <<>>), Op("print", <<>>), Op("unlock", <<>>)>>

\* part_000 411-422: appendRecord locks messagesMu, looks the key up, appends,
\* unlocks.  announce: the caller prints the record when it was appended.
AppendRecordProgram(record, announce) ==
    <<Op("lock", <<>>), Op("record", [record |-> record, announce |-> announce]),
      Op("unlock", <<>>)>>

\* part_000 129-141: the callback on a live message that passes the filters
LiveProgram(record) == AppendRecordProgram(record, TRUE)

\* part_000 452-472: what the messages of one conversation make the callback do
RECURSIVE HistoryMessageOps(_, _, _)
HistoryMessageOps(msgs, includeFromMe, now) ==
    IF msgs = <<>> THEN <<>>
    ELSE LET m == Head(msgs)
             made == newMessageRecord(m.evt, now)
             ops ==
                IF m.nil THEN <<>>
                ELSE IF ~m.parses THEN Println
                ELSE IF m.evt.fromMe /\ ~includeFromMe THEN <<>>
                ELSE IF ~made.ok THEN <<>>
                ELSE AppendRecordProgram(made.record, FALSE)
         IN ops \o HistoryMessageOps(Tail(msgs), includeFromMe, now)

\* part_000 432-473
RECURSIVE HistoryConversationOps(_, _, _, _)
HistoryConversationOps(convs, targetJID, includeFromMe, now) ==
    IF convs = <<>> THEN <<>>
    ELSE LET conv == Head(convs)
             parsed == ParseChatID(conv.id)
             ops ==
                IF conv.nil \/ conv.id = <<>> THEN <<>>
                ELSE IF parsed.err THEN Println
                ELSE IF targetJID # <<>> /\ JIDString(parsed.jid) # targetJID THEN <<>>
                ELSE HistoryMessageOps(conv.msgs, includeFromMe, now)
         IN ops \o HistoryConversationOps(Tail(convs), targetJID, includeFromMe, now)

\* part_000 143-152: processHistorySyncMessages, then one println either way
HistoryProgram(history, targetJID, includeFromMe, now) ==
    (IF ~history.hasData THEN <<>>
     ELSE HistoryConversationOps(history.conversations, targetJID, includeFromMe, now))
        \o Println

\* part_000 156-228: what Run does with the mutex and the connection, in
\* order (the sleeps, the rendering of a pairing code and the send come
\* between these steps and touch neither).
RunProgram(r) ==
    (IF r.pairing
        THEN Println \o <<Op("connect", <<>>)>> \o Println
        ELSE <<Op("connect", <<>>)>> \o Println)
    \o Println
    \o Println \o <<Op("lock", <<>>), Op("snapshot", FALSE), Op("unlock", <<>>)>>
    \o (CASE r.send = "none" -> Println
           [] r.send = "ok" -> Println \o Println
           [] OTHER -> Println \o <<Op("disconnect", <<>>)>>)
    \o (IF r.send = "fails" THEN <<>>
        ELSE Println
                \o <<Op("lock", <<>>), Op("snapshot", TRUE), Op("unlock", <<>>)>>
                \o Println \o <<Op("disconnect", <<>>)>>)

\* A Run about to connect: paired or not, with no message, a message the
\* backend takes or one it refuses; self-sent messages are let in, as they
\* are when the option is not set (part_000 122-125).
LocksInit ==
    /\ entry = "Run.locks"
    /\ phone = <<>>
    /\ req \in [pairing : BOOLEAN, send : {"none", "ok", "fails"},
                 includeFromMe : {TRUE}]
    /\ storeID = <<>>
    /\ pc = "lib_connect"
    /\ collector = <<>>
    /\ storeID0 = storeID
    /\ defers = <<>>
    /\ cfg = EmptyConfig
    /\ accountJID = EmptyJID
    /\ connected = FALSE
    /\ haveReadTarget = FALSE
    /\ readTarget = EmptyJID
    /\ sendTarget = EmptyJID
    /\ storeOpen = TRUE
    /\ storeOpens = 1
    /\ handlerRegistered = TRUE
    /\ backendConnected = FALSE
    /\ connectAttempts = 0
    /\ stabilized = FALSE
    /\ path = "none"
    /\ timer = "nil"
    /\ fired = 0
    /\ arrivals = 0
    /\ accepted = <<>>
    /\ woke = "none"
    /\ resp = NewResponse
    /\ out = <<>>
    /\ messageLog = <<>>
    /\ seenMessages = {}
    /\ mu = "free"
    /\ threads = [NoThreads EXCEPT !["run"] = RunProgram(req)]

\* An appendRecord that prints the record before it gives the mutex back.
RecordOpPrintsLocked(t) ==
    /\ Doing(t, "record")
    /\ LET res == appendRecord(messageLog, seenMessages, NextOp(t).arg.record)
           rest == Tail(threads[t])
       IN
        /\ messageLog' = res.log
        /\ seenMessages' = res.seen
        /\ threads' = [threads EXCEPT ![t] =
                (IF res.ok /\ NextOp(t).arg.announce THEN Println ELSE <<>>) \o rest]
    /\ UNCHANGED <<inputs, ctl, locals, store, backend, coll, output, mu>>

\* part_000 415-421 inside the lock; part_000 138-140: the callback prints the
\* record, after appendRecord has returned, when it was appended.
RecordOp(t) ==
    /\ Doing(t, "record")
    /\ LET res == appendRecord(messageLog, seenMessages, NextOp(t).arg.record)
           rest == Tail(threads[t])
       IN
        /\ messageLog' = res.log
        /\ seenMessages' = res.seen
        /\ threads' = [threads EXCEPT ![t] =
                <<Head(rest)>>
                    \o (IF res.ok /\ NextOp(t).arg.announce THEN Println ELSE <<>>)
                    \o Tail(rest)]
    /\ UNCHANGED <<inputs, ctl, locals, store, backend, coll, output, mu>>

\* part_000 119: fmt.Fprintf(out, ...)
PrintOp(t) ==
    /\ Doing(t, "print")
    /\ Advance(t)
    /\ UNCHANGED <<inputs, ctl, locals, store, backend, coll, output, lib, mu>>

\* part_000 190, 222: snapshotRecords under the lock; the second one becomes
\* result.LastMessages
SnapshotOp(t) ==
    /\ Doing(t, "snapshot")
    /\ resp' = IF NextOp(t).arg
                    THEN [resp EXCEPT !.LastMessages = snapshotRecords(messageLog, 1)]
                    ELSE resp
    /\ Advance(t)
    /\ UNCHANGED <<inputs, ctl, locals, store, backend, coll, out, lib, mu>>

\* part_000 161, 172: client.Connect()
ConnectOp(t) ==
    /\ Doing(t, "connect")
    /\ backendConnected' = TRUE
    /\ connectAttempts' = connectAttempts + 1
    /\ Advance(t)
    /\ UNCHANGED <<inputs, ctl, locals, store, handlerRegistered, stabilized, path,
                   coll, output, lib, mu>>

\* part_000 181, 227: client.Disconnect()
DisconnectOp(t) ==
    /\ Doing(t, "disconnect")
    /\ backendConnected' = FALSE
    /\ Advance(t)
    /\ UNCHANGED <<inputs, ctl, locals, store, handlerRegistered, connectAttempts,
                   stabilized, path, coll, output, lib, mu>>

\* part_000 129-141: the backend hands the callback a live message
CallLive ==
    /\ entry = "Run.locks"
    /\ backendConnected
    /\ threads["live"] = <<>>
    /\ arrivals < MaxArrivals
    /\ \E evt \in { e \in TextEvents : ~e.fromMe /\ e.ts \in {1, MaxTs} } :
        /\ ~(evt.fromMe /\ ~req.includeFromMe)
        /\ threads' = [threads EXCEPT
                            !["live"] = LiveProgram(newMessageRecord(evt, MaxTs).record)]
    /\ arrivals' = arrivals + 1
    /\ UNCHANGED <<inputs, ctl, locals, store, backend, collector, timer, fired,
                   accepted, woke, output, lib, mu>>

\* part_000 143-152: the backend hands the callback a history sync
CallHistory ==
    /\ entry = "Run.locks"
    /\ backendConnected
    /\ threads["hist"] = <<>>
    /\ arrivals < MaxArrivals
    /\ \E history \in HistoryBatches :
        threads' = [threads EXCEPT
                        !["hist"] = HistoryProgram(history, TargetID, req.includeFromMe,
                                                   MaxTs)]
    /\ arrivals' = arrivals + 1
    /\ UNCHANGED <<inputs, ctl, locals, store, backend, collector, timer, fired,
                   accepted, woke, output, lib, mu>>

\* One step of thread t of the library.
LocksStep(t) ==
    \/ Lock(t)
    \/ Unlock(t)
    \/ RecordOp(t)
    \/ PrintOp(t)
    \/ SnapshotOp(t)
    \/ ConnectOp(t)
    \/ DisconnectOp(t)

LocksNext ==
    \/ CallLive
    \/ CallHistory
    \/ LocksStep("run")
    \/ LocksStep("live")
    \/ LocksStep("hist")

\* Each thread goes on when it can.
LocksFairness == \A t \in Threads : WF_vars(LocksStep(t))

SpecLocks == LocksInit /\ [][LocksNext]_vars /\ LocksFairness

\* ------------------------------------- the callbacks on a history sync

\* History syncs with a conversion failure before and between convertible
\* messages, and with matching conversations after one that does not match.
BacklogBatches ==
    HistoryBatches \cup
    { [hasData |-> TRUE, conversations |->
        <<Conv(TargetID, <<WebMsg(MessageEvent(MessageID(1, FALSE), 1, FALSE,
                                               EmptyJID, TRUE, Hi, <<>>)),
                           BadMsg,
                           WebMsg(MessageEvent(MessageID(MaxTs, TRUE), MaxTs, TRUE,
                                               EmptyJID, TRUE, Hi, <<>>))>>),
          Conv(JIDString(OtherChat),
               <<WebMsg(MessageEvent(<<"o">>, 1, FALSE, EmptyJID, TRUE, Hi, <<>>))>>),
          Conv(TargetID, <<BadMsg,
                           WebMsg(MessageEvent(<<"e">>, 1, FALSE, EmptyJID, TRUE,
                                               <<>>, <<>>)),
                           WebMsg(MessageEvent(MessageID(MaxTs, FALSE), MaxTs, FALSE,
                                               EmptyJID, TRUE, Hi, <<>>))>>)>>],
      [hasData |-> TRUE, conversations |->
        <<Conv(TargetID, <<BadMsg>>),
          Conv(TargetID, <<WebMsg(MessageEvent(MessageID(1, FALSE), 1, FALSE,
                                               EmptyJID, TRUE, Hi, <<>>)),
                           WebMsg(MessageEvent(MessageID(1, FALSE), 1, FALSE,
                                               EmptyJID, TRUE, Hi, <<>>))>>)>>] }

\* The callback of Run ("Run.callback") or of WaRun ("WaRun.callback") in a
\* connected run that reads TargetChat, about to be handed the history sync
\* req.history.
BacklogInit ==
    /\ entry \in {"Run.callback", "WaRun.callback"}
    /\ phone = <<>>
    /\ \E h \in BacklogBatches, t \in {TargetID, JIDString(OtherChat)}, b \in BOOLEAN :
        req = [history |-> h, targetJIDString |-> t,
               includeFromMe |-> IF entry = "Run.callback" THEN b ELSE TRUE]
    /\ storeID = <<AccountA>>
    /\ pc = "hist_start"
    /\ collector =
            IF entry = "WaRun.callback"
                THEN <<newMessageCollector(0, determineBufferCap(0))>>
                ELSE <<>>
    /\ Fresh

\* part_000 129-141: a live message before the history sync
BacklogLive ==
    /\ entry = "Run.callback"
    /\ pc = "hist_start"
    /\ arrivals < MaxArrivals
    /\ \E evt \in TextEvents, now \in {MaxTs} :
        LET made == newMessageRecord(evt, now)
            res == appendRecord(messageLog, seenMessages, made.record)
        IN
        /\ JIDString(evt.chat) = req.targetJIDString
        /\ ~(evt.fromMe /\ ~req.includeFromMe)
        /\ made.ok /\ res.ok
        /\ messageLog' = res.log
        /\ seenMessages' = res.seen
        /\ arrivals' = arrivals + 1
    /\ UNCHANGED <<inputs, sync, ctl, locals, store, backend, collector, timer, fired,
                   accepted, woke, output>>

\* part_000 143-152: the HistorySync case of Run's callback; out holds the
\* count processHistorySyncMessages returned.
BacklogSync ==
    /\ entry = "Run.callback"
    /\ pc = "hist_start"
    /\ LET res == processHistorySyncMessages(req.history, req.targetJIDString,
                                             req.includeFromMe, MaxTs, messageLog,
                                             seenMessages)
       IN
        /\ messageLog' = res.log
        /\ seenMessages' = res.seen
        /\ out' = <<[added |-> res.added]>>
    /\ pc' = "hist_done"
    /\ UNCHANGED <<inputs, sync, defers, locals, store, backend, coll, resp>>

\* main.go 336-362: WaRun's callback switches on *events.Message alone; a
\* history sync matches no case and the callback returns.
BridgeSync ==
    /\ entry = "WaRun.callback"
    /\ pc = "hist_start"
    /\ pc' = "hist_done"
    /\ UNCHANGED <<inputs, sync, defers, locals, store, backend, coll, output, lib>>

BacklogNext == BacklogLive \/ BacklogSync \/ BridgeSync

SpecBacklog == BacklogInit /\ [][BacklogNext]_vars

\* ------------------------------------------------------------ claims

\* A collector entry of the bridge as a record of the library.
AsRecord(e) == [key |-> e.key, timestamp |-> e.ts, content |-> e.msg]

AsRecords(entries) == [i \in 1..Len(entries) |-> AsRecord(entries[i])]

\* The records the run's collector retains.
Retained ==
    IF entry = "Run" THEN messageLog
    ELSE IF collector = <<>> THEN <<>>
    ELSE AsRecords(collector[1].messages)

\* The records of the run's last_messages.
LastRecords ==
    IF entry = "Run" THEN resp.LastMessages ELSE AsRecords(resp.LastMessages)

IsSorted(records) ==
    \A i, j \in 1..Len(records) : i < j => ~RecordLess(records[j], records[i])

DistinctKeys(records) == { records[i].key : i \in 1..Len(records) }

\* C1: no two records the collector retains share a dedup key (offering a
\* record whose key was already accepted changes nothing).
C1_NoTwoRetainedShareKey ==
    \A i, j \in 1..Len(Retained) : i # j => Retained[i].key # Retained[j].key

\* C2: the snapshot that becomes last_messages is sorted by timestamp
\* ascending, content ascending among equal timestamps, whatever the order of
\* arrival.
C2_LastMessagesSorted == IsSorted(LastRecords)

\* C3: the collector never retains more than its cap, and what it retains are
\* the cap most recent records, by (timestamp, content), of all it took in.
C3_RetainsMostRecent ==
    collector # <<>> =>
        /\ Len(collector[1].messages) <= collector[1].bufferCap
        /\ SortStable(AsRecords(collector[1].messages))
             = snapshotRecords(AsRecords(accepted), collector[1].bufferCap)

\* C4: the completion signal fires at most once in a run, only for a positive
\* target, and only when the distinct retained records have reached the target.
C4_SignalFiresOnce ==
    collector # <<>> =>
        /\ fired <= 1
        /\ fired >= 1 =>
            /\ collector[1].limit > 0
            /\ Cardinality(DistinctKeys(Retained)) >= collector[1].limit

\* The steps that take a run from its listen wait to its final snapshot.
ListenEnds == WaitSignal \/ WaitTimeout \/ LibFinalSnapshot

\* The count target of the run: the read limit of its configuration.
CountTarget ==
    IF "readLimit" \in DOMAIN cfg THEN cfg.readLimit ELSE cfg.ReadLimit

\* C5: while the driving call is in its listen wait, it can go on to the final
\* snapshot exactly when the listen duration has elapsed or the count target
\* has been reached.
C5_ListenEndsAtSignalOrDeadline ==
    pc \in {"wait", "lib_sleeping"} =>
        ((ENABLED ListenEnds)
            <=> (timer = "fired" \/ (CountTarget > 0 /\ Len(Retained) >= CountTarget)))

\* C6: with a positive read limit L, last_messages never holds more than L
\* entries.
C6_LastMessagesWithinLimit ==
    (pc \in {"wait", "snapshot", "return", "unwind", "done", "lib_sleeping",
             "lib_disconnect"} /\ CountTarget > 0)
        => Len(LastRecords) <= CountTarget

\* C7: no run ends with the backend still connected.
C7_DisconnectedAtExit == pc = "done" => ~backendConnected

C7_Witness ==
    /\ pc = "done"
    /\ connectAttempts > 0
    /\ resp.Error \in {"failed to send", "send message"}
    /\ ~backendConnected

\* C8: the credential store is opened at most once in a run and is closed when
\* the run has returned.
C8_StoreClosedAtExit ==
    /\ storeOpens <= 1
    /\ pc = "done" => ~storeOpen

\* main.go 274: the error of an identity mismatch
MismatchError == "stored session is linked to another account"

\* A WaRun with a valid request whose stored identity is another account's
\* and that does not force a relink.
MismatchCase ==
    /\ entry = "WaRun"
    /\ storeID0 # <<>>
    /\ ~parseAccountIdentifier(phone).err
    /\ storeID0[1] # parseAccountIdentifier(phone).jid
    /\ normalizeConfig(req).err = ""
    /\ ~normalizeConfig(req).cfg.ForceRelink

\* The positions of WaRun up to identity resolution.
BeforeIdentity == {"start", "normalize", "openStore", "getDevice", "identity"}

\* C9: a WaRun whose stored identity differs from the requested account, without
\* force_relink, never attempts a connection, leaves the stored identity as it
\* was, never goes past identity resolution, and once it got that far ends
\* with the identity-mismatch error.
C9_IdentityMismatchFails ==
    MismatchCase =>
        /\ connectAttempts = 0
        /\ ~backendConnected
        /\ storeID = storeID0
        /\ pc \in BeforeIdentity \cup {"unwind", "done"}
        /\ (pc \in {"unwind", "done"}
                /\ resp.Error \notin {"failed to init db", "failed to get device"})
             => (resp.Status = "error" /\ resp.Error = MismatchError)

C9_Witness ==
    /\ MismatchCase
    /\ pc = "done"
    /\ resp.Error = MismatchError
    /\ out # <<>>

\* A WaRun with a stored identity and a valid request that forces a relink.
ForceCase ==
    /\ entry = "WaRun"
    /\ storeID0 # <<>>
    /\ normalizeConfig(req).err = ""
    /\ normalizeConfig(req).cfg.ForceRelink

\* C10: a WaRun with force_relink and a stored identity deletes the stored
\* identity before it connects, so every connect takes the pairing path; when
\* the delete fails the run ends without a connection attempt.
C10_ForcedRelinkPairs ==
    ForceCase =>
        /\ pc \in {"targets", "addHandler", "connect"} => storeID = <<>>
        /\ connectAttempts > 0 => path = "pairing"
        /\ resp.Error = "failed to reset stored session" =>
            (connectAttempts = 0 /\ storeID = storeID0 /\ pc \in {"unwind", "done"})

C10_Witness ==
    /\ ForceCase
    /\ storeID0 = <<accountJID>>
    /\ path = "pairing"
    /\ backendConnected
    /\ resp.RequiresQR


\* A record of a self-sent message: its content carries the self label.
IsSelfRecord(r) == \E i \in 1..Len(r.content) : r.content[i] = LabelSelf[1]

\* The caller opted in to self-sent messages: only the library's Config has
\* the option (IncludeFromMeSet with IncludeFromMe).
SelfOptIn == entry = "Run" /\ req.IncludeFromMeSet /\ req.IncludeFromMe

\* C11: unless the caller explicitly opted in, no self-sent message is among
\* the records the collector retains or among last_messages.
C11_NoSelfMessagesUnlessOptedIn ==
    ~SelfOptIn =>
        /\ \A i \in 1..Len(Retained) : ~IsSelfRecord(Retained[i])
        /\ \A i \in 1..Len(LastRecords) : ~IsSelfRecord(LastRecords[i])

\* The run ended on a failed send.
SendFailed == resp.Error \in {"failed to send", "send message"}

\* The plan of the run listens: WaRun when ShouldListen, Run always.
PlanListens == IF entry = "Run" THEN TRUE ELSE cfg.ShouldListen

\* C12: a run whose send failed and whose plan listens has still gone through
\* the listen wait and returns what the collector retained.
C12_SendFailureKeepsListen ==
    (pc = "done" /\ SendFailed /\ PlanListens) =>
        /\ timer # "nil"
        /\ Retained # <<>> => LastRecords # <<>>

\* The errors of a malformed or contradictory request.
ConfigErrors ==
    {"invalid request payload", "recipient is required", "nothing to do",
     "read target required", "invalid recipient", "invalid read_chat"}

\* C13: a run rejected with a config error has not opened the credential
\* store, has left the stored identity as it was and has attempted no
\* connection.
C13_ConfigErrorsDoNoIO ==
    resp.Error \in ConfigErrors =>
        /\ storeOpens = 0
        /\ storeID = storeID0
        /\ connectAttempts = 0


\* A string of white space only (the empty string included).
Blank(s) == \A i \in 1..Len(s) : IsSpace(s[i])

\* normalizeConfig has answered the request.
Decided == entry = "normalizeConfig" /\ pc = "cfg_done"

\* normalizeConfig has returned a plan.
PlanReturned == Decided /\ resp.Error = ""

\* The request decodes, and what it decodes to.
Parsed == ~parseRunPayload(req).err

Given == parseRunPayload(req).payload

\* The caller wrote a read_limit, whatever its value.
ReadLimitGiven == req.kind = "object" /\ req.obj.ReadLimit # <<>>

\* C14: every request that decodes with a non-blank send_text and a blank
\* recipient, whatever its other fields, and every non-blank bare string, is
\* rejected with the recipient-required error.
C14_SendNeedsRecipient ==
    Decided =>
        /\ (Parsed /\ ~Blank(Given.SendText) /\ Blank(Given.Recipient))
             => resp.Error = "recipient is required"
        /\ (req.kind = "text" /\ ~Blank(req.text))
             => resp.Error = "recipient is required"

C14_Witness ==
    /\ Decided
    /\ req.kind = "object"
    /\ req.obj.SendText = Hi
    /\ req.obj.Recipient = <<" ">>
    /\ req.obj.ReadChat # <<>>
    /\ req.obj.ForceRelink
    /\ resp.Error = "recipient is required"

\* A request that asks for nothing: no text, no recipient, no read target, no
\* positive limit or duration, no pairing display, no relink.
InactiveRequest ==
    /\ Parsed
    /\ Blank(Given.SendText) /\ Blank(Given.Recipient) /\ Blank(Given.ReadChat)
    /\ Given.ReadLimit <= 0 /\ Given.ListenSeconds <= 0
    /\ ~Given.ShowQR /\ ~Given.ForceRelink

\* C15: a request that asks for nothing is rejected with the nothing-to-do
\* error, and every plan normalizeConfig returns sends, listens, shows the
\* pairing code or forces a relink.
C15_IdleRequestRejected ==
    /\ (Decided /\ InactiveRequest) => resp.Error = "nothing to do"
    /\ PlanReturned =>
        (cfg.ShouldSend \/ cfg.ShouldListen \/ cfg.ShowQR \/ cfg.ForceRelink)

C15_Witness ==
    /\ Decided
    /\ req.kind = "object"
    /\ req.obj = EmptyObject
    /\ resp.Status = "error"
    /\ resp.Error = "nothing to do"

\* C16: a returned plan listens exactly when its read target is non-empty or
\* the request gave a positive read_limit or a positive listen_seconds; a plan
\* that listens has a positive duration, the default one when no positive
\* listen_seconds was given.
C16_ListenActiveExactly ==
    PlanReturned =>
        /\ cfg.ShouldListen
             <=> (cfg.ReadChat # <<>> \/ Given.ReadLimit > 0 \/ Given.ListenSeconds > 0)
        /\ cfg.ShouldListen => cfg.ListenDuration > 0
        /\ (cfg.ShouldListen /\ Given.ListenSeconds <= 0)
             => cfg.ListenDuration = defaultListenSeconds * Second

\* C17: in a returned plan a negative read_limit has become 0, a read_limit
\* the caller wrote is kept (clamped at 0), and the default count stands only
\* in a listening plan whose request wrote no read_limit and gave no positive
\* listen_seconds.
C17_ReadLimitResolution ==
    PlanReturned =>
        /\ Given.ReadLimit < 0 => cfg.ReadLimit = 0
        /\ ReadLimitGiven =>
            cfg.ReadLimit = (IF Given.ReadLimit < 0 THEN 0 ELSE Given.ReadLimit)
        /\ ~ReadLimitGiven =>
            cfg.ReadLimit =
                (IF cfg.ShouldListen /\ Given.ListenSeconds <= 0
                    THEN defaultReadLimit ELSE 0)

\* C18: a request that gives a positive read_limit or a positive
\* listen_seconds and whose read target (read_chat, else recipient) is blank is
\* rejected with the read-target-required error, and every returned plan that
\* listens has a read target.
C18_ListenNeedsReadTarget ==
    /\ (Decided /\ Parsed /\ Blank(Given.ReadChat) /\ Blank(Given.Recipient)
            /\ (Given.ReadLimit > 0 \/ Given.ListenSeconds > 0))
         => resp.Error = "read target required"
    /\ (PlanReturned /\ cfg.ShouldListen) => cfg.ReadChat # <<>>


\* C19: a WaRun that has entered its listen wait reaches its final snapshot
\* and returns a response, whether or not any message arrives.
C19_ListenTerminates ==
    (pc = "wait") ~> (out # <<>> /\ pc \in {"unwind", "done"})

C19_Witness ==
    /\ entry = "WaRun"
    /\ cfg.ShouldListen
    /\ arrivals = 0
    /\ woke = "timeout"
    /\ out # <<>>
    /\ out[1].status = "ok"


\* Every step of the WaRun went through: the connection was made and, when
\* the plan sends, the backend gave the sent message its ID.
RunSucceeded == connected /\ (cfg.ShouldSend => resp.MessageID # <<>>)

\* C20: a WaRun hands out a response only when it returns and never more than
\* one, a WaRun that has returned has handed out one, and the response says
\* "ok" without a message exactly when every step went through and "error"
\* with a message otherwise.
C20_OneStructuredResponse ==
    entry = "WaRun" =>
        /\ Len(out) <= 1
        /\ pc = "done" => Len(out) = 1
        /\ out # <<>> =>
            /\ pc \in {"unwind", "done"}
            /\ out[1].status \in {"ok", "error"}
            /\ out[1].status = "error" <=> out[1].error # <<>>
            /\ out[1].status = "ok" <=> RunSucceeded

C20_Witness ==
    /\ entry = "WaRun"
    /\ pc = "done"
    /\ out # <<>>
    /\ out[1].status = "error"
    /\ out[1].error = <<"failed to connect">>
    /\ connectAttempts = 1


\* The session state of a position of the driving call: 0 Idle, 1
\* IdentityResolved, 2 Pairing or Connected, 3 Active, 4 Closing, 5 Done.
Phase(p) ==
    CASE p \in {"start", "normalize", "openStore", "getDevice", "identity", "reset",
                "lib_start", "lib_openStore", "lib_getDevice"} -> 0
      [] p \in {"targets", "addHandler", "connect", "lib_addHandler", "lib_connect"} -> 1
      [] p \in {"pairing", "stabilize", "lib_pairing", "lib_connected"} -> 2
      [] p \in {"send", "listen", "wait", "lib_send", "lib_listen", "lib_sleeping"} -> 3
      [] p \in {"snapshot", "return", "lib_disconnect", "unwind"} -> 4
      [] OTHER -> 5

\* The run has returned an error: the terminal Failed state.
Failed == pc \in {"unwind", "done"} /\ resp.Status = "error"

\* The run is over for the backend: it has returned (Done or Failed).
Returned == pc \in {"unwind", "done"}

\* One step of a run keeps the order of the session states.
PhaseStep ==
    /\ Failed' \/ Phase(pc') \in {Phase(pc), Phase(pc) + 1}
    /\ connectAttempts' # connectAttempts => (Phase(pc) = 1 /\ ~Returned)
    /\ resp'.MessageID # resp.MessageID => (Phase(pc) = 3 /\ connectAttempts = 1)
    /\ (timer' = "armed" /\ timer # "armed") => (Phase(pc) = 3 /\ connectAttempts = 1)
    /\ woke' # woke => (Phase(pc) = 3 /\ connectAttempts = 1)
    /\ Returned =>
        /\ Returned'
        /\ connectAttempts' = connectAttempts
        /\ resp'.MessageID = resp.MessageID
        /\ woke' = woke
        /\ timer' # "armed" \/ timer = "armed"

\* C21: every step of a WaRun or Run keeps the order Idle, IdentityResolved,
\* Pairing or Connected, Active, Closing, Done, or ends in Failed; a connect is
\* attempted only after identity resolution, send and listen only after the
\* connection step, and a run that has returned connects, sends and listens
\* no more.
C21_SessionStateOrder ==
    /\ []((entry \in {"WaRun", "Run"} /\ Phase(pc) >= 2 /\ ~Failed) => connectAttempts = 1)
    /\ [][PhaseStep]_vars

C21_Witness ==
    /\ entry = "WaRun"
    /\ pc = "done"
    /\ path = "pairing"
    /\ resp.Status = "ok"
    /\ resp.MessageID # <<>>
    /\ woke = "signal"

\* The step calls client.SendMessage: the backend gave the message its ID, or
\* the run failed on the send.
SendIssued ==
    \/ resp'.MessageID # resp.MessageID
    \/ SendFailed' /\ ~SendFailed

\* C22: a send is issued only by a run whose connection step has finished
\* (the direct connect returned, or the pairing-code stream was closed) and
\* whose stabilization sleep has elapsed; the sleep itself comes after the
\* connection step, never during pairing.
C22_SendAfterStabilization ==
    /\ [](stabilized => (Phase(pc) >= 3 /\ connectAttempts = 1 /\ path # "none"))
    /\ [][SendIssued => (stabilized /\ pc \in {"send", "lib_send"})]_vars

C22_Witness ==
    /\ entry = "Run"
    /\ path = "pairing"
    /\ stabilized
    /\ resp.MessageID = SentID
    /\ pc = "lib_listen"

\* The run ended on a failed connect.
ConnectFailed == resp.Error \in {"failed to connect", "connect"}

\* The requires_qr flag of the result the run handed out (absent is false).
ResultRequiresQR ==
    IF entry = "Run" THEN out[1].result[1].RequiresQR
    ELSE out[1].requires_qr = <<TRUE>>

\* The run handed out a result carrying the flag: every response of WaRun, and
\* the Result of Run (Run returns none with most of its errors).
HasResult ==
    /\ out # <<>>
    /\ entry = "Run" => out[1].result # <<>>

\* C23: a connect takes the pairing path exactly when the client's store holds
\* no identity at that time, else the direct path; the result's requires_qr is
\* true exactly when the pairing path was taken; a failed connect on either
\* path ends the run with a connect error, nothing sent and no listen.
C23_PairingOrDirect ==
    /\ [][connectAttempts' # connectAttempts =>
            /\ path' = (IF storeID = <<>> THEN "pairing" ELSE "direct")
            /\ pc' \in {"pairing", "lib_pairing"} => path' = "pairing"
            /\ pc' \in {"stabilize", "lib_connected"} => path' = "direct"
            /\ ~backendConnected' => (ConnectFailed' /\ pc' = "unwind")]_vars
    /\ [](pc \in {"pairing", "lib_pairing"} => path = "pairing")
    /\ [](HasResult => (ResultRequiresQR <=> path = "pairing"))
    /\ [](ConnectFailed =>
            /\ pc \in {"unwind", "done"}
            /\ resp.Status = "error"
            /\ resp.MessageID = <<>>
            /\ resp.LastMessages = <<>>
            /\ timer = "nil" /\ woke = "none" /\ ~stabilized)

C23_Witness ==
    /\ entry = "WaRun"
    /\ pc = "done"
    /\ path = "pairing"
    /\ out # <<>>
    /\ out[1].requires_qr = <<TRUE>>
    /\ out[1].error = <<"failed to connect">>

\* The dedup keys of the messages of the history sync h that sit in a
\* conversation whose identifier is target and that convert to a record.
ConvertibleKeys(h, target) ==
    IF ~h.hasData THEN {}
    ELSE UNION { { newMessageRecord(c.msgs[j].evt, MaxTs).record.key :
                     j \in { k \in 1..Len(c.msgs) :
                               /\ ~c.msgs[k].nil
                               /\ c.msgs[k].parses
                               /\ newMessageRecord(c.msgs[k].evt, MaxTs).ok } } :
                 c \in { h.conversations[i] :
                           i \in { k \in 1..Len(h.conversations) :
                                     /\ ~h.conversations[k].nil
                                     /\ h.conversations[k].id = target } } }

\* Of those, the keys of the messages the self-message policy lets through.
OfferedKeys(h, target, includeFromMe) ==
    IF ~h.hasData THEN {}
    ELSE UNION { { newMessageRecord(c.msgs[j].evt, MaxTs).record.key :
                     j \in { k \in 1..Len(c.msgs) :
                               /\ ~c.msgs[k].nil
                               /\ c.msgs[k].parses
                               /\ newMessageRecord(c.msgs[k].evt, MaxTs).ok
                               /\ (c.msgs[k].evt.fromMe => includeFromMe) } } :
                 c \in { h.conversations[i] :
                           i \in { k \in 1..Len(h.conversations) :
                                     /\ ~h.conversations[k].nil
                                     /\ h.conversations[k].id = target } } }

\* The dedup keys the callback's collector holds.
CollectedKeys ==
    IF entry = "Run.callback" THEN seenMessages
    ELSE { collector[1].messages[i].key : i \in 1..Len(collector[1].messages) }

\* C24: when the callback has handled a history sync, the collector holds
\* every convertible message of every conversation that matches the read
\* target (a message that fails to convert stops nothing after it), nothing of
\* any other conversation, and the count returned is the number of records
\* the collector accepted.
C24_BacklogMerge ==
    pc = "hist_done" =>
        /\ OfferedKeys(req.history, req.targetJIDString, req.includeFromMe)
                \subseteq CollectedKeys
        /\ CollectedKeys \subseteq
                ConvertibleKeys(req.history, req.targetJIDString)
                    \cup { DedupKey(e.id, e.ts, senderLabel(e), e.fromMe, Hi) :
                             e \in TextEvents }
        /\ entry = "Run.callback" =>
                (out # <<>> /\ out[1].added = Len(messageLog) - arrivals)

\* The step takes the final snapshot (main.go 479-483, part_000 221-223).
SnapshotStep ==
    \/ pc = "snapshot" /\ pc' = "return"
    \/ pc = "lib_sleeping" /\ pc' = "lib_disconnect"

\* The final snapshot has been taken.
SnapshotTaken == pc \in {"return", "lib_disconnect"} \/ (Returned /\ woke # "none")

\* last_messages as the result handed out carries them.
EmittedLastMessages ==
    IF entry = "Run" THEN out[1].result[1].LastMessages
    ELSE out[1].last_messages

\* last_messages as the final snapshot gave them.
SnapshotLastMessages ==
    IF entry = "Run" THEN recordsToStrings(resp.LastMessages)
    ELSE marshalResponse(resp).last_messages

\* C25: the final snapshot is taken while the backend is still connected, the
\* caller gets the result when the backend is disconnected, and once the final
\* snapshot is taken no add changes last_messages, in the result being built
\* or in the result handed out.
C25_ClosingOrder ==
    /\ [][SnapshotStep => (backendConnected /\ backendConnected')]_vars
    /\ []((pc = "done" /\ out # <<>>) => ~backendConnected)
    /\ [][SnapshotTaken =>
            (resp'.LastMessages = resp.LastMessages /\ (out # <<>> => out' = out))]_vars
    /\ []((SnapshotTaken /\ HasResult) => EmittedLastMessages = SnapshotLastMessages)

C25_Witness ==
    /\ entry = "WaRun"
    /\ pc = "done"
    /\ woke = "timeout"
    /\ Len(resp.LastMessages) = 1
    /\ Len(collector[1].messages) = 2
    /\ out[1].last_messages = <<[i \in 1..1 |-> resp.LastMessages[i].msg]>>

\* The callback is inside messageCollector.add.
InAdd == threads["live"] # <<>>

\* C26: a callback inside messageCollector.add can always take its next
\* step, except at mu.Lock() while the driving call copies its snapshot, which
\* can then go on to release the mutex; so every add returns, however many
\* arrivals follow the target and whether the driving call has yet to wait,
\* waits or has left.
C26_AddNeverBlocks ==
    /\ [](InAdd =>
            \/ ENABLED AddStep("live")
            \/ Doing("live", "lock") /\ mu = "run" /\ ENABLED AddStep("run"))
    /\ (InAdd ~> ~InAdd)

C26_Witness ==
    /\ entry = "add"
    /\ pc = "after"
    /\ collector[1].limit = 1
    /\ collector[1].done = 1
    /\ fired = 2
    /\ arrivals = MaxArrivals + 1
    /\ ~InAdd

\* C27: a request that decodes with a blank or omitted read_chat and a
\* non-blank recipient gets a plan, and the plan's read target is the
\* recipient; every returned plan that sends also listens, on the recipient's
\* conversation when the request named no other.
C27_ReadChatDefaultsToRecipient ==
    /\ (Decided /\ Parsed /\ Blank(Given.ReadChat) /\ ~Blank(Given.Recipient)) =>
        /\ PlanReturned
        /\ cfg.ReadChat = TrimSpace(Given.Recipient)
        /\ cfg.ReadChat = cfg.Recipient
        /\ cfg.ShouldListen
    /\ (PlanReturned /\ cfg.ShouldSend) =>
        /\ cfg.ShouldListen
        /\ cfg.ReadChat # <<>>
        /\ Blank(Given.ReadChat) => cfg.ReadChat = cfg.Recipient

C27_Witness ==
    /\ PlanReturned
    /\ req.kind = "object"
    /\ req.obj.SendText = Hi
    /\ req.obj.ReadChat = <<" ">>
    /\ req.obj.ReadLimit = <<0>>
    /\ cfg.ShouldSend /\ cfg.ShouldListen
    /\ cfg.ReadChat = <<"1", "2", "3">>

\* The collector of the WaRun retains as many messages as its count target.
TargetReached ==
    /\ collector # <<>>
    /\ collector[1].limit > 0
    /\ Len(collector[1].messages) >= collector[1].limit

\* C28: a signal put on done stays there until the listen wait takes it, so a
\* WaRun at its listen wait with the count target reached, before the wait
\* began or during it, finds the signal and can leave the wait at once,
\* whether or not the timer has fired.
C28_NoLostWakeUp ==
    /\ []((entry = "WaRun" /\ pc \in {"listen", "wait"} /\ TargetReached)
            => collector[1].done = 1)
    /\ []((entry = "WaRun" /\ pc = "wait" /\ TargetReached) => ENABLED WaitSignal)
    /\ [][(entry = "WaRun" /\ collector # <<>> /\ collector[1].done = 1
                /\ collector'[1].done = 0)
            => (pc = "wait" /\ woke' = "signal")]_vars

C28_Witness ==
    /\ entry = "WaRun"
    /\ path = "pairing"
    /\ pc = "snapshot"
    /\ woke = "signal"
    /\ timer = "armed"
    /\ arrivals = 1
    /\ resp.MessageID = SentID

\* C29: the collector WaRun builds for a positive read_limit has a retention
\* cap of at least the limit, and when read_limit matching messages have been
\* received it retains that many and the completion signal has fired.
C29_TargetReachable ==
    (entry = "determineBufferCap" /\ collector # <<>>) =>
        /\ collector[1].bufferCap >= collector[1].limit
        /\ arrivals = req.limit =>
            /\ Len(collector[1].messages) >= collector[1].limit
            /\ fired >= 1

\* C30: no thread of the library is at messagesMu.Lock() while it holds
\* messagesMu; a thread with something left to do can take a step unless it
\* waits for the mutex another thread holds; and in the end Run and the
\* callbacks have returned and the mutex is free, so every thread that took
\* the mutex gave it back.
C30_MutexDiscipline ==
    /\ [](\A t \in Threads : ~(Doing(t, "lock") /\ mu = t))
    /\ [](\A t \in Threads :
            threads[t] # <<>> =>
                \/ ENABLED LocksStep(t)
                \/ Doing(t, "lock") /\ mu \in Threads \ {t})
    /\ <>[](threads = NoThreads /\ mu = "free")

C30_Witness ==
    /\ entry = "Run.locks"
    /\ mu = "hist"
    /\ Doing("hist", "record")
    /\ Doing("live", "lock")
    /\ Doing("run", "lock")
    /\ Len(messageLog) = 1

\* The run listens and the event is one it listens for: a message of the
\* read target with a text (main.go 324-333, 339-351); in the library a
\* message of the target chat, not a self-sent one the options leave out,
\* that makes a record (part_000 129-137).
Matching(evt) ==
    IF entry = "Run"
        THEN /\ ~(cfg.targetJIDString # <<>> /\ JIDString(evt.chat) # cfg.targetJIDString)
             /\ ~(evt.fromMe /\ ~cfg.includeFromMe)
             /\ newMessageRecord(evt, MaxTs).ok
        ELSE /\ cfg.ShouldListen
             /\ evt.hasMessage
             /\ EventText(evt) # <<>>
             /\ evt.chat = parseChatIdentifier(cfg.ReadChat).jid

\* The callback, handed evt now, gives it to the collector, which retains it
\* as its newest entry (main.go 339-360, 86-97; part_000 129-141): what
\* Deliver and LibLive do with evt in this state.
Offered(evt) ==
    /\ handlerRegistered
    /\ IF entry = "Run"
            THEN LET res == appendRecord(messageLog, seenMessages,
                                         newMessageRecord(evt, MaxTs).record)
                 IN res.ok => \E i \in 1..Len(res.log) :
                                    res.log[i] = newMessageRecord(evt, MaxTs).record
            ELSE /\ HandlerAccepts(collector, haveReadTarget, readTarget, evt)
                 /\ LET msgs == add(collector[1], FormatBridge(evt)).messages
                    IN msgs # <<>> /\ msgs[Len(msgs)] = FormatBridge(evt)

\* The events the backend may hand to the callback of this run.
InboundEvents == IF entry = "Run" THEN LibEvents ELSE BridgeEvents

\* C31: Connect is called with the event handler registered and, in a run
\* that listens, the collector created; and from the connection on, until the
\* final snapshot is taken, the handler stays registered and every matching
\* event the backend delivers is given to the collector and counted, during
\* the pairing, the stabilization delay and the send as during the wait.
C31_SubscriptionPrecedesConnection ==
    /\ [][(connectAttempts' = connectAttempts + 1) =>
            /\ handlerRegistered
            /\ (entry = "WaRun" /\ cfg.ShouldListen) => collector # <<>>]_vars
    /\ []((entry \in {"WaRun", "Run"} /\ backendConnected /\ ~SnapshotTaken) =>
            /\ handlerRegistered
            /\ arrivals < MaxArrivals =>
                    \A evt \in InboundEvents : Matching(evt) => Offered(evt))

C31_Witness ==
    /\ entry = "WaRun"
    /\ pc = "pairing"
    /\ backendConnected
    /\ Len(accepted) = 1
    /\ collector[1].messages = accepted
    /\ arrivals = 1

\* The step removes the event handler (main.go 363).
HandlerRemoved == handlerRegistered /\ ~handlerRegistered'

\* The step closes the credential store (main.go 255).
StoreClosed == storeOpen /\ ~storeOpen'

\* The step disconnects the backend (main.go 366-370).
Disconnected == backendConnected /\ ~backendConnected'

\* C32: in WaRun the backend is never connected with the handler removed or
\* the store closed; the step that disconnects leaves the handler registered
\* and the store open; the steps that remove the handler and close the store
\* find the backend disconnected; and a WaRun that connected has, when it
\* returns, disconnected, removed the handler and closed the store.
C32_TeardownOrder ==
    /\ []((entry = "WaRun" /\ backendConnected) => (handlerRegistered /\ storeOpen))
    /\ [][(entry = "WaRun" /\ Disconnected) =>
            (handlerRegistered' /\ storeOpen' /\ pc = "unwind")]_vars
    /\ [][(entry = "WaRun" /\ (HandlerRemoved \/ StoreClosed)) =>
            (~backendConnected /\ ~backendConnected')]_vars
    /\ [][(entry = "WaRun" /\ StoreClosed) => ~handlerRegistered]_vars
    /\ []((entry = "WaRun" /\ pc = "done" /\ connected) =>
            (~backendConnected /\ ~handlerRegistered /\ ~storeOpen))

C32_Witness ==
    /\ entry = "WaRun"
    /\ pc = "unwind"
    /\ connected
    /\ resp.Status = "error"
    /\ ~backendConnected
    /\ handlerRegistered
    /\ storeOpen
    /\ defers = <<"removeHandler", "closeStore">>

====
